---- MODULE Spec2Model ----
(***************************************************************************)
(* A state-machine model of the SVG vector editor: the element list, the   *)
(* drawing tools, selection, the repeat-points manager (sampling, active   *)
(* point, cloning of newly drawn shapes) and anchor editing.               *)
(*                                                                         *)
(* JavaScript numbers are modelled as exact rationals <<n, d>> in lowest   *)
(* terms (d > 0), with NaN == <<0, 0>>.  A nullable field is an option:    *)
(* Null == <<>> and Some(v) == <<v>>.  Array indices keep the source's     *)
(* 0-based values; a JavaScript array a is a TLA+ sequence s with          *)
(* a[i] = s[i + 1].                                                        *)
(***************************************************************************)
EXTENDS Integers, Sequences, FiniteSets, TLC

\* ------------------------------------------------------------------------
\* Bounds of the model
\* ------------------------------------------------------------------------
MaxPos == 1          \* pointer positions are Pt(0) .. Pt(MaxPos)
MaxDrawn == 2        \* shapes the user draws in one run (clones come on top)
MaxEdits == 1        \* pointer moves that drag a shape or a handle in one run
MaxCount == 2        \* the largest repeat count typed into the input
MaxSampleCoord == 1   \* sampled lines have coordinates 0, 3, ..., 3 * MaxSampleCoord
MaxSampleCount == 4   \* the counts sampled with are -1 .. MaxSampleCount, and NaN
MaxDragStep == 2      \* a handle is dragged to a grid of (MaxDragStep + 1)^2 positions
MaxSketches == 1     \* finished shapes after which the drawing specification draws no more
MaxMoves == 2        \* calls of a shape's move method in one run
MaxSegments == 3     \* segments of a path in progress when a press may still extend it
MaxPointIndex == 3    \* updatePathGeometry is called with pointIndex -1 .. MaxPointIndex

\* ------------------------------------------------------------------------
\* Options (null / non-null)
\* ------------------------------------------------------------------------
Null == <<>>
Some(v) == <<v>>
IsNull(o) == o = <<>>
Get(o) == o[1]

\* ------------------------------------------------------------------------
\* JavaScript numbers as rationals
\* ------------------------------------------------------------------------
NaN == <<0, 0>>
IsNaN(a) == a[2] = 0

AbsInt(n) == IF n < 0 THEN -n ELSE n

RECURSIVE GCD(_, _)
GCD(a, b) == IF b = 0 THEN a ELSE GCD(b, a % b)

\* n/d in lowest terms; a zero denominator has no finite value
Norm(n, d) ==
    IF d = 0 THEN NaN
    ELSE LET g == GCD(AbsInt(n), AbsInt(d))
             s == IF d < 0 THEN -1 ELSE 1
         IN  <<(s * n) \div g, (s * d) \div g>>

Num(n) == <<n, 1>>
Add(a, b) == IF IsNaN(a) \/ IsNaN(b) THEN NaN
             ELSE Norm(a[1] * b[2] + b[1] * a[2], a[2] * b[2])
Sub(a, b) == IF IsNaN(a) \/ IsNaN(b) THEN NaN
             ELSE Norm(a[1] * b[2] - b[1] * a[2], a[2] * b[2])
Mul(a, b) == IF IsNaN(a) \/ IsNaN(b) THEN NaN
             ELSE Norm(a[1] * b[1], a[2] * b[2])
Div(a, b) == IF IsNaN(a) \/ IsNaN(b) THEN NaN
             ELSE Norm(a[1] * b[2], a[2] * b[1])
\* comparisons with NaN are false, as in JavaScript
Lt(a, b) == ~IsNaN(a) /\ ~IsNaN(b) /\ a[1] * b[2] < b[1] * a[2]
Le(a, b) == ~IsNaN(a) /\ ~IsNaN(b) /\ a[1] * b[2] <= b[1] * a[2]
Gt(a, b) == Lt(b, a)
\* Math.max / Math.min / Math.abs (NaN is contagious)
MathMax(a, b) == IF IsNaN(a) \/ IsNaN(b) THEN NaN ELSE IF Lt(a, b) THEN b ELSE a
MathMin(a, b) == IF IsNaN(a) \/ IsNaN(b) THEN NaN ELSE IF Lt(b, a) THEN b ELSE a
MathAbs(a) == IF IsNaN(a) THEN NaN ELSE <<AbsInt(a[1]), a[2]>>
\* a || b on numbers: 0 and NaN are falsy
OrElse(a, b) == IF IsNaN(a) \/ a[1] = 0 THEN b ELSE a

\* points
Pt2(x, y) == [x |-> x, y |-> y]


\* ------------------------------------------------------------------------
\* Elements (SVG nodes) and their geometry
\*   line   g = [x1, y1, x2, y2]        rect g = [x, y, width, height]
\*   circle g = [cx, cy, r]             path g = [d], d a sequence of commands
\*   command: [op |-> "M" or "L", p] or [op |-> "C", c1, c2, p]
\* An attribute is written with setAttribute(name, number) and read back with
\* parseFloat; on finite numbers that round trip returns the number written,
\* so an attribute holds a number.  The d string is held as the sequence of
\* commands that d.match(/[MLC]\s*([^MLC]+)/g) splits it into.
\* ------------------------------------------------------------------------
\* PropertiesManager.currentProperties after construction
DefaultProperties ==
    [stroke |-> "#000000", fill |-> "#ffffff", strokeWidth |-> "2", opacity |-> Num(1)]

\* PropertiesManager.applyCurrentProperties: the attributes a new element gets
AppliedStyle(props) ==
    [stroke |-> IF props.stroke = "#ffffff" THEN "none" ELSE props.stroke,
     fill |-> IF props.fill = "#ffffff" THEN "none" ELSE props.fill,
     strokeWidth |-> props.strokeWidth,
     opacity |-> props.opacity]

NewElement(tag, g) ==
    [tag |-> tag, g |-> g, style |-> AppliedStyle(DefaultProperties),
     meta |-> Null, attached |-> TRUE]

\* `${v}`: a number is written in plain decimal, or with an exponent when it
\* is not 0 and smaller than 1e-6 in size (sizes from 1e21 on are out of
\* reach here), or as NaN
FormatNumber(v) ==
    [letter |-> "", value |-> v,
     plain |-> ~IsNaN(v) /\ (v[1] = 0 \/ Le(Norm(1, 1000000), MathAbs(v)))]

\* the numbers of a path command as they stand in d
CommandNumbers(cmd) ==
    IF cmd.op = "C"
    THEN <<cmd.c1.x, cmd.c1.y, cmd.c2.x, cmd.c2.y, cmd.p.x, cmd.p.y>>
    ELSE <<cmd.p.x, cmd.p.y>>

\* the command matches its regular expression, /[ML]\s*([-\d.]+)\s+([-\d.]+)/
\* or the one of C with six groups: [-\d.]+ takes a number written in plain
\* decimal and neither NaN nor the e of an exponent
Matches(cmd) ==
    \A j \in 1..Len(CommandNumbers(cmd)) : FormatNumber(CommandNumbers(cmd)[j]).plain

\* the first "M x y" found in d (PathShape.getReferencePoint's regex)
RECURSIVE FirstM(_)
FirstM(d) ==
    IF d = <<>> THEN Null
    ELSE IF Head(d).op = "M" /\ Matches(Head(d)) THEN Some(Head(d).p)
    ELSE FirstM(Tail(d))

\* Shape.getReferencePoint by kind; Null when the path has no M command
ShapeReferencePoint(e) ==
    CASE e.tag = "line" -> Some(Pt2(e.g.x1, e.g.y1))
      [] e.tag = "rect" -> Some(Pt2(e.g.x, e.g.y))
      [] e.tag = "circle" -> Some(Pt2(e.g.cx, e.g.cy))
      [] e.tag = "path" -> FirstM(e.g.d)
      [] OTHER -> Null

\* RepeatPointsManager.getElementReferencePoint
getElementReferencePoint(e) == ShapeReferencePoint(e)

MovePoint(p, dx, dy) == Pt2(Add(p.x, dx), Add(p.y, dy))

\* a faulty map: the second control point of a curve stays where it is
MoveCommandLeavingControl(cmd, dx, dy) ==
    IF cmd.op = "C"
    THEN [op |-> "C", c1 |-> MovePoint(cmd.c1, dx, dy),
          c2 |-> cmd.c2, p |-> MovePoint(cmd.p, dx, dy)]
    ELSE [op |-> cmd.op, p |-> MovePoint(cmd.p, dx, dy)]

\* one command of PathShape.move's map; a command that does not match is
\* returned as it is
MoveCommand(cmd, dx, dy) ==
    IF ~Matches(cmd) THEN cmd
    ELSE IF cmd.op = "C"
    THEN [op |-> "C", c1 |-> MovePoint(cmd.c1, dx, dy),
          c2 |-> MovePoint(cmd.c2, dx, dy), p |-> MovePoint(cmd.p, dx, dy)]
    ELSE [op |-> cmd.op, p |-> MovePoint(cmd.p, dx, dy)]

\* PathShape.move: nothing moves unless the first command is an M that matches
PathMove(d, dx, dy) ==
    IF d = <<>> \/ d[1].op # "M" \/ ~Matches(d[1]) THEN d
    ELSE [i \in 1..Len(d) |-> MoveCommand(d[i], dx, dy)]

\* LineShape.move / RectangleShape.move / CircleShape.move / PathShape.move
ShapeMove(e, dx, dy) ==
    CASE e.tag = "line" ->
           [e EXCEPT !.g = [x1 |-> Add(e.g.x1, dx), y1 |-> Add(e.g.y1, dy),
                            x2 |-> Add(e.g.x2, dx), y2 |-> Add(e.g.y2, dy)]]
      [] e.tag = "rect" ->
           [e EXCEPT !.g = [e.g EXCEPT !.x = Add(e.g.x, dx), !.y = Add(e.g.y, dy)]]
      [] e.tag = "circle" ->
           [e EXCEPT !.g = [e.g EXCEPT !.cx = Add(e.g.cx, dx), !.cy = Add(e.g.cy, dy)]]
      [] e.tag = "path" ->
           [e EXCEPT !.g = [d |-> PathMove(e.g.d, dx, dy)]]
      [] OTHER -> e

\* Shape.clone: a new node with the style and geometry attributes copied;
\* it carries no __repeatMeta and is not yet in the document
ShapeClone(e) ==
    [tag |-> e.tag, g |-> e.g, style |-> e.style, meta |-> Null, attached |-> FALSE]

\* RepeatPointsManager.cloneElementWithTranslation
cloneElementWithTranslation(e, dx, dy) == ShapeMove(ShapeClone(e), dx, dy)

\* ------------------------------------------------------------------------
\* Sampling (RepeatPointsManager.computeRepeatPointsForElement)
\* ------------------------------------------------------------------------
\* the vertices the path runs through, control points included
RECURSIVE PathVertices(_)
PathVertices(d) ==
    IF d = <<>> THEN <<>>
    ELSE (IF Head(d).op = "C" THEN <<Head(d).c1, Head(d).c2, Head(d).p>>
          ELSE <<Head(d).p>>) \o PathVertices(Tail(d))

Dist(p, q) == Add(MathAbs(Sub(q.x, p.x)), MathAbs(Sub(q.y, p.y)))

\* SVGGeometryElement.getTotalLength.  The browser's arc length is abstracted
\* by the length of the polygon through the path's vertices, measured along
\* the axes; for a path of horizontal and vertical lines this is its length.
RECURSIVE PolyLength(_)
PolyLength(vs) ==
    IF Len(vs) <= 1 THEN Num(0)
    ELSE Add(Dist(vs[1], vs[2]), PolyLength(Tail(vs)))

getTotalLength(d) == PolyLength(PathVertices(d))

\* the point at distance len along the leg p -> q (horizontal part first)
LegPoint(p, q, len) ==
    LET hx == MathAbs(Sub(q.x, p.x))
        sx == IF Lt(q.x, p.x) THEN Num(-1) ELSE Num(1)
        sy == IF Lt(q.y, p.y) THEN Num(-1) ELSE Num(1)
    IN  IF Le(len, hx) THEN Pt2(Add(p.x, Mul(sx, len)), p.y)
        ELSE Pt2(q.x, Add(p.y, Mul(sy, Sub(len, hx))))

\* SVGGeometryElement.getPointAtLength, on the same polygon
RECURSIVE PolyPointAt(_, _)
PolyPointAt(vs, len) ==
    IF vs = <<>> THEN Pt2(Num(0), Num(0))
    ELSE IF Len(vs) = 1 THEN vs[1]
    ELSE IF Le(len, Dist(vs[1], vs[2])) THEN LegPoint(vs[1], vs[2], len)
    ELSE PolyPointAt(Tail(vs), Sub(len, Dist(vs[1], vs[2])))

getPointAtLength(d, len) == PolyPointAt(PathVertices(d), len)

\* the number of turns of "for (let i = 0; i < count; i++)"
LoopTurns(count) == IF IsNaN(count) \/ count[1] <= 0 THEN 0 ELSE count[1]

\* a faulty t: the last sample stops short of the end
SampleTShort(i, count) == IF count = Num(1) THEN Norm(1, 2) ELSE Div(Num(i), count)

\* t for loop index i (0-based)
SampleT(i, count) == IF count = Num(1) THEN Norm(1, 2) ELSE Div(Num(i), Sub(count, Num(1)))

\* a faulty sampler: a line's y runs over the line's width
computeRepeatPointsSkewed(e, count) ==
    IF Le(count, Num(0)) \/ e.tag # "line" THEN <<>>
    ELSE [k \in 1..LoopTurns(count) |->
            LET t == SampleT(k - 1, count)
            IN  [t |-> t,
                 x |-> Add(e.g.x1, Mul(Sub(e.g.x2, e.g.x1), t)),
                 y |-> Add(e.g.y1, Mul(Sub(e.g.x2, e.g.x1), t))]]

computeRepeatPointsForElement(e, count) ==
    IF Le(count, Num(0)) THEN <<>>
    ELSE IF e.tag = "line" THEN
        [k \in 1..LoopTurns(count) |->
            LET t == SampleT(k - 1, count)
            IN  [t |-> t,
                 x |-> Add(e.g.x1, Mul(Sub(e.g.x2, e.g.x1), t)),
                 y |-> Add(e.g.y1, Mul(Sub(e.g.y2, e.g.y1), t))]]
    ELSE IF e.tag = "path" THEN
        [k \in 1..LoopTurns(count) |->
            LET t == SampleT(k - 1, count)
                pt == getPointAtLength(e.g.d, Mul(getTotalLength(e.g.d), t))
            IN  [t |-> t, x |-> pt.x, y |-> pt.y]]
    ELSE <<>>

\* RepeatPointsManager.getRepeatMeta: the element's meta, created when absent
NewMeta == [count |-> Num(0), points |-> <<>>, activeIndex |-> Null]
getRepeatMeta(e) == IF IsNull(e.meta) THEN NewMeta ELSE Get(e.meta)

\* a faulty update: the active index survives whatever the new points are
createOrUpdateKeepingActive(e, count) ==
    [e EXCEPT !.meta = Some([count |-> count,
                             points |-> computeRepeatPointsForElement(e, count),
                             activeIndex |-> getRepeatMeta(e).activeIndex])]

\* RepeatPointsManager.createOrUpdateRepeatPoints, as the element afterwards
createOrUpdateRepeatPoints(e, count) ==
    LET meta == getRepeatMeta(e)
        points == computeRepeatPointsForElement(e, count)
        ai == meta.activeIndex
    IN  [e EXCEPT !.meta = Some(
            [count |-> count, points |-> points,
             activeIndex |-> IF ~IsNull(ai) /\ (Get(ai) < 0 \/ Get(ai) >= Len(points))
                             THEN Null ELSE ai])]

\* ------------------------------------------------------------------------
\* Pointer positions and input values
\* ------------------------------------------------------------------------
Pt(i) == Pt2(Num(4 * i), Num(4 * (i % 2)))
Pos == {Pt(i) : i \in 0..MaxPos}

\* what parseInt(repeatCountInput.value, 10) can give for the values typed
CountValues == {Num(-1), Num(MaxCount)}

\* Math.sqrt; an irrational root is rounded down to a multiple of 1/d
RECURSIVE IsqrtFrom(_, _)
IsqrtFrom(n, r) == IF (r + 1) * (r + 1) > n THEN r ELSE IsqrtFrom(n, r + 1)
MathSqrt(a) == IF IsNaN(a) \/ a[1] < 0 THEN NaN
               ELSE Norm(IsqrtFrom(a[1] * a[2], 0), a[2])

\* ------------------------------------------------------------------------
\* The state
\* ------------------------------------------------------------------------
VARIABLES
    currentTool,         \* SVGVectorEditor.currentTool
    isDrawing,           \* SVGVectorEditor.isDrawing
    elements,            \* SVGVectorEditor.elements: node ids, in layer order
    dom,                 \* every node created so far; a node's id is its index
    drawingTools,        \* LineTool / RectangleTool / CircleTool fields, by tool
    pathTool,            \* PathTool fields (drawingTools.path)
    selectedElement,     \* SelectionManager: the selected node, or Null
    isDraggingElement,   \* SelectionManager: a whole-shape drag is in progress
    dragOffset,          \* SelectionManager: pointer minus reference point
    selectedRepeatPoint, \* RepeatPointsManager.selectedRepeatPoint
    repeatPoints,        \* RepeatPointsManager.repeatPoints: the markers shown
    anchorPoints,        \* SVGVectorEditor.anchorPoints: the handles shown
    selectedAnchorPoint, \* SVGVectorEditor.selectedAnchorPoint
    isDraggingAnchor,    \* SVGVectorEditor.isDraggingAnchor
    anchorDragOffset,    \* SVGVectorEditor.anchorDragOffset
    controlPoints,       \* SVGVectorEditor.controlPoints: the control handles shown
    selectedControlPoint, \* SVGVectorEditor.selectedControlPoint
    isDraggingControl,   \* SVGVectorEditor.isDraggingControl
    controlDragOffset,   \* SVGVectorEditor.controlDragOffset
    controlHandles,      \* SVGVectorEditor.controlHandles: handle lines in the svg
    propertiesManager,   \* PropertiesManager fields, and its listener calls in progress
    repeatCountValue,    \* the repeatCount input, as parseInt reads it
    message,             \* the type of the last showMessage, or Null
    mouse,               \* "up", "down" or "click" (a click event is due)
    downTarget,          \* what the button went down on
    drawn,               \* how many shapes the user has started to draw
    edits                \* how many pointer moves have dragged something

vars == <<currentTool, isDrawing, elements, dom, drawingTools, pathTool, selectedElement,
          isDraggingElement, dragOffset, selectedRepeatPoint, repeatPoints,
          anchorPoints, selectedAnchorPoint, isDraggingAnchor, anchorDragOffset,
          controlPoints, selectedControlPoint, isDraggingControl, controlDragOffset,
          controlHandles, propertiesManager, repeatCountValue, message, mouse, downTarget,
          drawn, edits>>

\* the program state as one record, so that a handler is a function on it
Now ==
    [currentTool |-> currentTool, isDrawing |-> isDrawing, elements |-> elements,
     dom |-> dom, drawingTools |-> drawingTools, pathTool |-> pathTool,
     selectedElement |-> selectedElement,
     isDraggingElement |-> isDraggingElement, dragOffset |-> dragOffset,
     selectedRepeatPoint |-> selectedRepeatPoint, repeatPoints |-> repeatPoints,
     anchorPoints |-> anchorPoints, selectedAnchorPoint |-> selectedAnchorPoint,
     isDraggingAnchor |-> isDraggingAnchor, anchorDragOffset |-> anchorDragOffset,
     controlPoints |-> controlPoints, selectedControlPoint |-> selectedControlPoint,
     isDraggingControl |-> isDraggingControl, controlDragOffset |-> controlDragOffset,
     controlHandles |-> controlHandles, propertiesManager |-> propertiesManager,
     repeatCountValue |-> repeatCountValue, message |-> message]

\* the nodes some reference of the program still leads to
Referenced(s) ==
    {s.elements[k] : k \in 1..Len(s.elements)}
    \cup {id \in 1..Len(s.dom) : s.dom[id].attached}
    \cup {id \in 1..Len(s.dom) :
            \/ s.selectedElement = Some(id)
            \/ s.propertiesManager.selectedElement = Some(id)
            \/ ~IsNull(s.selectedRepeatPoint) /\ Get(s.selectedRepeatPoint).element = id
            \/ ~IsNull(s.selectedAnchorPoint) /\ Get(s.selectedAnchorPoint).element = id
            \/ ~IsNull(s.selectedControlPoint) /\ Get(s.selectedControlPoint).element = id
            \/ \E k \in 1..Len(s.controlPoints) : s.controlPoints[k].element = id
            \/ \E t \in DOMAIN s.drawingTools : s.drawingTools[t].currentElement = Some(id)
            \/ s.pathTool.currentPath = Some(id)
            \/ \E k \in 1..Len(s.anchorPoints) : s.anchorPoints[k].element = id
            \/ \E k \in 1..Len(s.repeatPoints) : s.repeatPoints[k].element = id}

\* a node nothing refers to any more can never be observed again: what is
\* left of it is only that it once existed
Collected == [tag |-> "collected", g |-> <<>>, style |-> <<>>, meta |-> Null, attached |-> FALSE]

Becomes(s) ==
    /\ currentTool' = s.currentTool
    /\ isDrawing' = s.isDrawing
    /\ elements' = s.elements
    /\ dom' = [id \in 1..Len(s.dom) |-> IF id \in Referenced(s) THEN s.dom[id] ELSE Collected]
    /\ drawingTools' = s.drawingTools
    /\ pathTool' = s.pathTool
    /\ selectedElement' = s.selectedElement
    /\ isDraggingElement' = s.isDraggingElement
    /\ dragOffset' = s.dragOffset
    /\ selectedRepeatPoint' = s.selectedRepeatPoint
    /\ repeatPoints' = s.repeatPoints
    /\ anchorPoints' = s.anchorPoints
    /\ selectedAnchorPoint' = s.selectedAnchorPoint
    /\ isDraggingAnchor' = s.isDraggingAnchor
    /\ anchorDragOffset' = s.anchorDragOffset
    /\ controlPoints' = s.controlPoints
    /\ selectedControlPoint' = s.selectedControlPoint
    /\ isDraggingControl' = s.isDraggingControl
    /\ controlDragOffset' = s.controlDragOffset
    /\ controlHandles' = s.controlHandles
    /\ propertiesManager' = s.propertiesManager
    /\ repeatCountValue' = s.repeatCountValue
    /\ message' = s.message

IdleTool == [isDrawing |-> FALSE, currentElement |-> Null, drawingStartPoint |-> Null]
\* PathTool after construction; mouseDownPos and isDragging are undefined
\* until the first press, and read as absent and false.  drawingStartPoint
\* is written and never read, and is left out.
IdlePathTool ==
    [isDrawing |-> FALSE, currentPath |-> Null, pathPoints |-> <<>>, pathSegments |-> <<>>,
     curveStartPoint |-> Null, isCreatingCurve |-> FALSE, mouseDownPos |-> Null,
     isDragging |-> FALSE, controlPreviewLines |-> <<>>]

\* PropertiesManager after construction; calls holds the propertyChanged
\* events whose listener is running, the innermost last, and error what the
\* last dispatch ended with
IdlePropertiesManager ==
    [currentProperties |-> DefaultProperties, selectedElement |-> Null,
     calls |-> <<>>, error |-> Null]
ZeroOffset == Pt2(Num(0), Num(0))
ShapeTools == {"line", "rectangle", "circle"}
Tools == {"select", "anchor", "line", "rectangle", "circle", "path"}
OnCanvas == [kind |-> "svg", id |-> 0]
OnElement(id) == [kind |-> "element", id |-> id]
OnOverlay == [kind |-> "overlay", id |-> 0]

Init ==
    /\ currentTool = "select"
    /\ isDrawing = FALSE
    /\ elements = <<>>
    /\ dom = <<>>
    /\ drawingTools = [t \in ShapeTools |-> IdleTool]
    /\ pathTool = IdlePathTool
    /\ selectedElement = Null
    /\ isDraggingElement = FALSE
    /\ dragOffset = ZeroOffset
    /\ selectedRepeatPoint = Null
    /\ repeatPoints = <<>>
    /\ anchorPoints = <<>>
    /\ selectedAnchorPoint = Null
    /\ isDraggingAnchor = FALSE
    /\ anchorDragOffset = ZeroOffset
    /\ controlPoints = <<>>
    /\ selectedControlPoint = Null
    /\ isDraggingControl = FALSE
    /\ controlDragOffset = ZeroOffset
    /\ controlHandles = <<>>
    /\ propertiesManager = IdlePropertiesManager
    /\ repeatCountValue \in CountValues
    /\ message = Null
    /\ mouse = "up"
    /\ downTarget = OnCanvas
    /\ drawn = 0
    /\ edits = 0

\* ------------------------------------------------------------------------
\* RepeatPointsManager
\* ------------------------------------------------------------------------
\* renderRepeatPoints: one marker per point of the element
renderRepeatPoints(s, id) ==
    LET e == s.dom[id]
    IN  IF IsNull(e.meta) \/ Get(e.meta).points = <<>>
        THEN [s EXCEPT !.repeatPoints = <<>>]
        ELSE [s EXCEPT !.repeatPoints =
                 [k \in 1..Len(Get(e.meta).points) |-> [element |-> id, index |-> k - 1]]]

clearRepeatPoints(s) == [s EXCEPT !.repeatPoints = <<>>]

\* a faulty activation: a click on the active marker leaves it active
setActiveRepeatPointNoToggle(s, id, index) ==
    renderRepeatPoints(
        [s EXCEPT !.dom[id].meta = Some([getRepeatMeta(s.dom[id]) EXCEPT !.activeIndex = Some(index)]),
                  !.selectedRepeatPoint = Some([element |-> id, index |-> index])], id)

setActiveRepeatPoint(s, id, index) ==
    LET meta == getRepeatMeta(s.dom[id])
    IN  IF meta.activeIndex = Some(index)
        THEN renderRepeatPoints(
                 [s EXCEPT !.dom[id].meta = Some([meta EXCEPT !.activeIndex = Null]),
                           !.selectedRepeatPoint = Null], id)
        ELSE renderRepeatPoints(
                 [s EXCEPT !.dom[id].meta = Some([meta EXCEPT !.activeIndex = Some(index)]),
                           !.selectedRepeatPoint = Some([element |-> id, index |-> index])], id)

\* SVGVectorEditor.updateLayersList: elements no longer in the document are dropped
updateLayersList(s) ==
    [s EXCEPT !.elements = SelectSeq(s.elements, LAMBDA id : s.dom[id].attached)]

\* a faulty loop: the active point gets a clone as well
CloneSlotsAll(points, index) == [k \in 1..Len(points) |-> k - 1]

\* the indices i of handleDrawRepeatForNewElement's loop that yield a clone
CloneSlots(points, index) ==
    SelectSeq([k \in 1..Len(points) |-> k - 1], LAMBDA i : i # index)

\* the clones handleDrawRepeatForNewElement makes of node newId, in order
ClonesFor(s, newId) ==
    IF IsNull(s.selectedRepeatPoint) THEN <<>>
    ELSE LET source == s.dom[Get(s.selectedRepeatPoint).element]
             index == Get(s.selectedRepeatPoint).index
         IN  IF IsNull(source.meta) \/ Get(source.meta).points = <<>> THEN <<>>
             ELSE LET points == Get(source.meta).points
                      ref == getElementReferencePoint(s.dom[newId])
                  IN  IF index < 0 \/ index >= Len(points) THEN <<>>
                      ELSE IF IsNull(ref) THEN <<>>
                      ELSE LET active == points[index + 1]
                               slots == CloneSlots(points, index)
                               cloneDeltaX == Sub(Get(ref).x, active.x)
                               cloneDeltaY == Sub(Get(ref).y, active.y)
                           IN  [k \in 1..Len(slots) |->
                                  LET p == points[slots[k] + 1]
                                  IN  cloneElementWithTranslation(s.dom[newId],
                                          Sub(Add(p.x, cloneDeltaX), Get(ref).x),
                                          Sub(Add(p.y, cloneDeltaY), Get(ref).y))]

\* a faulty cloning: clone() is left out and the drawn node itself is moved
handleDrawRepeatInPlace(s, newId) ==
    LET clones == ClonesFor(s, newId)
    IN  IF clones = <<>> THEN s
        ELSE updateLayersList(
                 [s EXCEPT !.dom[newId] = [clones[Len(clones)] EXCEPT !.attached = TRUE],
                           !.elements = s.elements \o [k \in 1..Len(clones) |-> newId]])

handleDrawRepeatForNewElement(s, newId) ==
    LET clones == ClonesFor(s, newId)
        n == Len(s.dom)
        s1 == [s EXCEPT
                 !.dom = s.dom \o [k \in 1..Len(clones) |-> [clones[k] EXCEPT !.attached = TRUE]],
                 !.elements = s.elements \o [k \in 1..Len(clones) |-> n + k]]
    IN  IF clones = <<>> THEN s ELSE updateLayersList(s1)

\* ------------------------------------------------------------------------
\* Anchor handles
\* ------------------------------------------------------------------------
\* Array.prototype.indexOf: the 0-based position of x, or -1
IndexOf(seq, x) ==
    IF \E i \in 1..Len(seq) : seq[i] = x
    THEN (CHOOSE i \in 1..Len(seq) : seq[i] = x /\ \A j \in 1..(i - 1) : seq[j] # x) - 1
    ELSE -1

\* where the handles of an element sit, by handle index; a path has one per
\* command that matches (showPathAnchorPointsForEditing counts those only)
AnchorSpots(e) ==
    CASE e.tag = "line" -> <<Pt2(e.g.x1, e.g.y1), Pt2(e.g.x2, e.g.y2)>>
      [] e.tag = "rect" ->
           <<Pt2(e.g.x, e.g.y), Pt2(Add(e.g.x, e.g.width), e.g.y),
             Pt2(Add(e.g.x, e.g.width), Add(e.g.y, e.g.height)),
             Pt2(e.g.x, Add(e.g.y, e.g.height))>>
      [] e.tag = "circle" -> <<Pt2(e.g.cx, e.g.cy), Pt2(Add(e.g.cx, e.g.r), e.g.cy)>>
      [] e.tag = "path" ->
           LET shown == SelectSeq(e.g.d, Matches)
           IN  [k \in 1..Len(shown) |-> shown[k].p]
      [] OTHER -> <<>>

\* the handles of one element; elementId is dataset.elementId, which only a
\* selectable handle carries
HandlesOf(s, id, selectable) ==
    LET spots == AnchorSpots(s.dom[id])
    IN  [k \in 1..Len(spots) |->
            [index |-> k - 1, type |-> s.dom[id].tag, element |-> id,
             elementId |-> IF selectable THEN Some(IndexOf(s.elements, id)) ELSE Null,
             x |-> spots[k].x, y |-> spots[k].y, selectable |-> selectable]]

\* showAnchorPoints: the plain handles of the selected element
showAnchorPoints(s, id) ==
    [s EXCEPT !.anchorPoints = @ \o HandlesOf(s, id, FALSE)]

\* the positions (1-based) of the C commands of d, in order
CurveCommands(d) == SelectSeq([k \in 1..Len(d) |-> k], LAMBDA k : d[k].op = "C")

\* the position of the C command of curve segment segmentIndex, or -1
\* (0-based, as the loops over commands compute it)
CurveCommandIndex(d, segmentIndex) ==
    IF segmentIndex >= 0 /\ segmentIndex < Len(CurveCommands(d))
    THEN CurveCommands(d)[segmentIndex + 1] - 1
    ELSE -1

\* showPathAnchorPointsForEditing: two control handles per curve command
\* that matches, numbered among those
ControlHandlesOf(s, id) ==
    LET d == s.dom[id].g.d
        curves == SelectSeq(CurveCommands(d), LAMBDA k : Matches(d[k]))
    IN  [k \in 1..(2 * Len(curves)) |->
            LET cmd == d[curves[(k + 1) \div 2]]
                controlIndex == 2 - (k % 2)
                at == IF controlIndex = 1 THEN cmd.c1 ELSE cmd.c2
            IN  [segmentIndex |-> ((k + 1) \div 2) - 1, controlIndex |-> controlIndex,
                 element |-> id, elementId |-> IndexOf(s.elements, id),
                 x |-> at.x, y |-> at.y]]

\* showAnchorPointsForElement: the selectable handles of the anchor tool
showAnchorPointsForElement(s, id) ==
    [s EXCEPT !.anchorPoints = @ \o HandlesOf(s, id, TRUE),
              !.controlPoints = @ \o (IF s.dom[id].tag = "path"
                                      THEN ControlHandlesOf(s, id) ELSE <<>>)]

RECURSIVE ShowEach(_, _)
ShowEach(s, ids) ==
    IF ids = <<>> THEN s
    ELSE ShowEach(showAnchorPointsForElement(s, Head(ids)), Tail(ids))

showAllAnchorPoints(s) == ShowEach(s, s.elements)

clearAnchorPoints(s) ==
    [s EXCEPT !.anchorPoints = <<>>, !.controlPoints = <<>>,
              !.selectedAnchorPoint = Null, !.selectedControlPoint = Null]

\* ------------------------------------------------------------------------
\* SelectionManager
\* ------------------------------------------------------------------------
\* PropertiesManager.updatePropertiesPanel: currentProperties read back from
\* the element's attributes
PanelProperties(style) ==
    [stroke |-> IF style.stroke = "none" THEN "#ffffff" ELSE style.stroke,
     fill |-> IF style.fill = "none" THEN "#ffffff" ELSE style.fill,
     strokeWidth |-> style.strokeWidth,
     opacity |-> style.opacity]

\* the listeners of 'selectionCleared' and 'elementSelected'
clearSelection(s) ==
    clearAnchorPoints(clearRepeatPoints(
        [s EXCEPT !.selectedElement = Null, !.propertiesManager.selectedElement = Null]))

selectElement(s, id) ==
    renderRepeatPoints(
        showAnchorPoints(
            [clearSelection(s) EXCEPT
                !.selectedElement = Some(id),
                !.propertiesManager.selectedElement = Some(id),
                !.propertiesManager.currentProperties = PanelProperties(s.dom[id].style)],
            id), id)

hideAllAnchorPoints(s) == clearSelection(clearAnchorPoints(s))

\* startDragging: the offset of the pointer from the element's position
startDragging(s, pos) ==
    LET ref == ShapeReferencePoint(s.dom[Get(s.selectedElement)])
        at == IF IsNull(ref) THEN pos ELSE Get(ref)
    IN  [s EXCEPT !.isDraggingElement = TRUE,
                  !.dragOffset = Pt2(Sub(pos.x, at.x), Sub(pos.y, at.y))]

\* the recomputation that follows a geometry change of element id
RecomputeRepeatPoints(s, id) ==
    LET e == s.dom[id]
    IN  IF ~IsNull(e.meta) /\ Gt(Get(e.meta).count, Num(0))
        THEN renderRepeatPoints(
                 [s EXCEPT !.dom[id] = createOrUpdateRepeatPoints(e, Get(e.meta).count)], id)
        ELSE s

updateSelectionVisuals(s) ==
    IF IsNull(s.selectedElement) THEN s
    ELSE renderRepeatPoints(
             showAnchorPoints(clearAnchorPoints(s), Get(s.selectedElement)),
             Get(s.selectedElement))

\* moveElement: the element's position becomes (x, y)
moveElement(s, id, x, y) ==
    LET e == s.dom[id]
        ref == ShapeReferencePoint(e)
        moved == IF IsNull(ref) THEN e
                 ELSE ShapeMove(e, Sub(x, Get(ref).x), Sub(y, Get(ref).y))
        s1 == updateSelectionVisuals([s EXCEPT !.dom[id] = moved])
    IN  IF s1.selectedElement = Some(id) THEN RecomputeRepeatPoints(s1, id) ELSE s1

updateDragging(s, pos) ==
    IF IsNull(s.selectedElement) THEN s
    ELSE LET id == Get(s.selectedElement)
         IN  RecomputeRepeatPoints(
                 moveElement(s, id, Sub(pos.x, s.dragOffset.x), Sub(pos.y, s.dragOffset.y)),
                 id)

finishDragging(s) ==
    [s EXCEPT !.isDraggingElement = FALSE, !.dragOffset = ZeroOffset]

\* ------------------------------------------------------------------------
\* Anchor editing (SVGVectorEditor)
\* ------------------------------------------------------------------------
\* selectAnchorPoint for handle number k of anchorPoints (1-based)
selectAnchorPoint(s, k) ==
    LET h == s.anchorPoints[k]
    IN  [s EXCEPT !.selectedAnchorPoint =
            Some([point |-> k, x |-> h.x, y |-> h.y, index |-> h.index,
                  type |-> h.type, element |-> h.element]),
                  !.selectedControlPoint = Null]

\* a faulty selection: the anchor selection survives
selectControlPointKeepingAnchor(s, k) ==
    LET h == s.controlPoints[k]
    IN  [s EXCEPT !.selectedControlPoint =
            Some([point |-> k, x |-> h.x, y |-> h.y, segmentIndex |-> h.segmentIndex,
                  controlIndex |-> h.controlIndex, element |-> h.element])]

\* selectControlPoint for handle number k of controlPoints (1-based)
selectControlPoint(s, k) ==
    LET h == s.controlPoints[k]
    IN  [s EXCEPT !.selectedControlPoint =
            Some([point |-> k, x |-> h.x, y |-> h.y, segmentIndex |-> h.segmentIndex,
                  controlIndex |-> h.controlIndex, element |-> h.element]),
                  !.selectedAnchorPoint = Null]

\* a faulty start of a drag: no offset is stored
startAnchorPointDraggingCentred(s, pos) ==
    [s EXCEPT !.isDraggingAnchor = TRUE, !.anchorDragOffset = ZeroOffset]

startAnchorPointDragging(s, pos) ==
    LET anchor == Get(s.selectedAnchorPoint)
    IN  [s EXCEPT !.isDraggingAnchor = TRUE,
                  !.anchorDragOffset = Pt2(Sub(pos.x, anchor.x), Sub(pos.y, anchor.y))]

updateLineGeometry(e, pointIndex, newX, newY) ==
    IF pointIndex = 0
    THEN [e EXCEPT !.g.x1 = newX, !.g.y1 = newY]
    ELSE [e EXCEPT !.g.x2 = newX, !.g.y2 = newY]

\* a faulty corner drag: the new size is stored as computed, unclamped
updateRectGeometryUnclamped(e, pointIndex, newX, newY) ==
    [e EXCEPT !.g = [x |-> IF pointIndex \in {0, 3} THEN newX ELSE e.g.x,
                     y |-> IF pointIndex \in {0, 1} THEN newY ELSE e.g.y,
                     width |-> IF pointIndex \in {0, 3}
                               THEN Add(e.g.width, Sub(e.g.x, newX)) ELSE Sub(newX, e.g.x),
                     height |-> IF pointIndex \in {0, 1}
                                THEN Add(e.g.height, Sub(e.g.y, newY)) ELSE Sub(newY, e.g.y)]]

updateRectGeometry(e, pointIndex, newX, newY) ==
    LET x == e.g.x
        y == e.g.y
        width == e.g.width
        height == e.g.height
        newWidth == CASE pointIndex \in {0, 3} -> Add(width, Sub(x, newX))
                      [] pointIndex \in {1, 2} -> Sub(newX, x)
                      [] OTHER -> width
        newHeight == CASE pointIndex \in {0, 1} -> Add(height, Sub(y, newY))
                       [] pointIndex \in {2, 3} -> Sub(newY, y)
                       [] OTHER -> height
        newX1 == IF pointIndex \in {0, 3} THEN newX ELSE x
        newY1 == IF pointIndex \in {0, 1} THEN newY ELSE y
    IN  [e EXCEPT !.g = [x |-> newX1, y |-> newY1,
                         width |-> MathMax(Num(0), newWidth),
                         height |-> MathMax(Num(0), newHeight)]]

\* a faulty circle drag: the radius handle measures along x only
updateCircleGeometryAlongX(e, pointIndex, newX, newY) ==
    IF pointIndex = 0
    THEN [e EXCEPT !.g.cx = newX, !.g.cy = newY]
    ELSE [e EXCEPT !.g.r = MathAbs(Sub(newX, e.g.cx))]

updateCircleGeometry(e, pointIndex, newX, newY) ==
    IF pointIndex = 0
    THEN [e EXCEPT !.g.cx = newX, !.g.cy = newY]
    ELSE LET dx == Sub(newX, e.g.cx)
             dy == Sub(newY, e.g.cy)
         IN  [e EXCEPT !.g.r = MathSqrt(Add(Mul(dx, dx), Mul(dy, dy)))]

\* a faulty rewrite: only the end point of a curve follows the anchor
MoveAnchorCommandEndOnly(cmd, newX, newY) == [cmd EXCEPT !.p = Pt2(newX, newY)]

\* updatePathGeometry's rewrite of the command of anchor pointIndex; a
\* command that does not match stays as it is
MoveAnchorCommand(cmd, newX, newY) ==
    IF ~Matches(cmd) THEN cmd
    ELSE IF cmd.op = "C"
    THEN LET offsetX == Sub(newX, cmd.p.x)
             offsetY == Sub(newY, cmd.p.y)
         IN  [op |-> "C", c1 |-> MovePoint(cmd.c1, offsetX, offsetY),
              c2 |-> MovePoint(cmd.c2, offsetX, offsetY), p |-> Pt2(newX, newY)]
    ELSE [op |-> cmd.op, p |-> Pt2(newX, newY)]

\* updateControlPointsForPath: the control handles whose elementId is the
\* path's present position in the list are moved to where its curves put them
updateControlPointsForPath(s, id) ==
    LET elementId == IndexOf(s.elements, id)
        d == s.dom[id].g.d
    IN  [s EXCEPT !.controlPoints =
            [k \in 1..Len(s.controlPoints) |->
                LET h == s.controlPoints[k]
                    i == CurveCommandIndex(d, h.segmentIndex)
                IN  IF h.elementId = elementId /\ i # -1 /\ Matches(d[i + 1])
                    THEN LET at == IF h.controlIndex = 1 THEN d[i + 1].c1 ELSE d[i + 1].c2
                         IN  [h EXCEPT !.x = at.x, !.y = at.y]
                    ELSE h]]

\* a faulty update: an index past the end moves the last anchor
updatePathGeometryClamped(s, id, pointIndex, newX, newY) ==
    LET d == s.dom[id].g.d
    IN  IF d = <<>> \/ pointIndex < 0 THEN s
        ELSE LET i == IF pointIndex < Len(d) THEN pointIndex + 1 ELSE Len(d)
             IN  [s EXCEPT !.dom[id].g.d[i] = MoveAnchorCommand(d[i], newX, newY)]

\* a faulty move: the first control point of the curve that leaves the moved
\* anchor follows it
updatePathGeometryPullingNext(s, id, pointIndex, newX, newY) ==
    LET d == s.dom[id].g.d
        found == pointIndex >= 0 /\ pointIndex < Len(d)
        pulls == found /\ pointIndex + 2 <= Len(d) /\ d[pointIndex + 2].op = "C"
        s0 == IF found
              THEN [s EXCEPT !.dom[id].g.d[pointIndex + 1] =
                                MoveAnchorCommand(d[pointIndex + 1], newX, newY)]
              ELSE s
        s1 == IF pulls THEN [s0 EXCEPT !.dom[id].g.d[pointIndex + 2].c1 = Pt2(newX, newY)]
              ELSE s0
        s2 == IF found /\ d[pointIndex + 1].op = "C"
              THEN updateControlPointsForPath(s1, id) ELSE s1
    IN  IF s2.selectedElement = Some(id) THEN RecomputeRepeatPoints(s2, id) ELSE s2

updatePathGeometry(s, id, pointIndex, newX, newY) ==
    LET d == s.dom[id].g.d
        found == pointIndex >= 0 /\ pointIndex < Len(d)
        s1 == IF found
              THEN [s EXCEPT !.dom[id].g.d[pointIndex + 1] =
                                MoveAnchorCommand(d[pointIndex + 1], newX, newY)]
              ELSE s
        s2 == IF found /\ d[pointIndex + 1].op = "C"
              THEN updateControlPointsForPath(s1, id) ELSE s1
    IN  IF s2.selectedElement = Some(id) THEN RecomputeRepeatPoints(s2, id) ELSE s2

updateElementGeometry(s, newX, newY) ==
    LET anchor == Get(s.selectedAnchorPoint)
        id == anchor.element
        e == s.dom[id]
    IN  CASE anchor.type = "line" ->
               [s EXCEPT !.dom[id] = updateLineGeometry(e, anchor.index, newX, newY)]
          [] anchor.type = "rect" ->
               [s EXCEPT !.dom[id] = updateRectGeometry(e, anchor.index, newX, newY)]
          [] anchor.type = "circle" ->
               [s EXCEPT !.dom[id] = updateCircleGeometry(e, anchor.index, newX, newY)]
          [] anchor.type = "path" ->
               updatePathGeometry(s, id, anchor.index, newX, newY)

\* updateAnchorPointsForElement: the handles whose elementId is the element's
\* present position in the list are moved to where its geometry puts them;
\* handle index of a path is taken for command index, and the handle stays
\* where it is when that command does not match
updateAnchorPointsForElement(s, id) ==
    LET elementId == IndexOf(s.elements, id)
        e == s.dom[id]
        spots == IF e.tag = "path" THEN [k \in 1..Len(e.g.d) |-> e.g.d[k].p]
                 ELSE AnchorSpots(e)
        s1 == [s EXCEPT !.anchorPoints =
                 [k \in 1..Len(s.anchorPoints) |->
                     LET h == s.anchorPoints[k]
                     IN  IF h.elementId = Some(elementId) /\ h.type = e.tag
                            /\ h.index < Len(spots)
                            /\ (e.tag = "path" => Matches(e.g.d[h.index + 1]))
                         THEN [h EXCEPT !.x = spots[h.index + 1].x,
                                        !.y = spots[h.index + 1].y]
                         ELSE h]]
    IN  IF e.tag = "path" THEN updateControlPointsForPath(s1, id) ELSE s1

updateAnchorPointDragging(s, pos) ==
    IF IsNull(s.selectedAnchorPoint) THEN s
    ELSE LET newX == Sub(pos.x, s.anchorDragOffset.x)
             newY == Sub(pos.y, s.anchorDragOffset.y)
             anchor == Get(s.selectedAnchorPoint)
             s1 == [s EXCEPT !.anchorPoints[anchor.point].x = newX,
                             !.anchorPoints[anchor.point].y = newY,
                             !.selectedAnchorPoint =
                                 Some([anchor EXCEPT !.x = newX, !.y = newY])]
         IN  updateAnchorPointsForElement(updateElementGeometry(s1, newX, newY),
                                          anchor.element)

\* a faulty end of a drag: the handle is deselected
finishAnchorPointDraggingDeselecting(s) ==
    [s EXCEPT !.isDraggingAnchor = FALSE, !.anchorDragOffset = ZeroOffset,
              !.selectedAnchorPoint = Null]

finishAnchorPointDragging(s) ==
    [s EXCEPT !.isDraggingAnchor = FALSE, !.anchorDragOffset = ZeroOffset]

\* ------------------------------------------------------------------------
\* Control point editing (SVGVectorEditor)
\* ------------------------------------------------------------------------
startControlPointDragging(s, pos) ==
    LET control == Get(s.selectedControlPoint)
    IN  [s EXCEPT !.isDraggingControl = TRUE,
                  !.controlDragOffset = Pt2(Sub(pos.x, control.x), Sub(pos.y, control.y))]

\* a faulty rewrite: the sibling control point follows the moved one
updatePathControlPointBoth(d, segmentIndex, controlIndex, newX, newY) ==
    LET i == CurveCommandIndex(d, segmentIndex)
    IN  IF i = -1 THEN d
        ELSE [d EXCEPT ![i + 1].c1 = Pt2(newX, newY), ![i + 1].c2 = Pt2(newX, newY)]

\* updatePathControlPoint: the d of the path afterwards
updatePathControlPoint(d, segmentIndex, controlIndex, newX, newY) ==
    LET curveCommandIndex == CurveCommandIndex(d, segmentIndex)
    IN  IF curveCommandIndex = -1 \/ ~Matches(d[curveCommandIndex + 1]) THEN d
        ELSE IF controlIndex = 1
        THEN [d EXCEPT ![curveCommandIndex + 1].c1 = Pt2(newX, newY)]
        ELSE [d EXCEPT ![curveCommandIndex + 1].c2 = Pt2(newX, newY)]

updatePathGeometryForControlPoint(s, newX, newY) ==
    LET control == Get(s.selectedControlPoint)
        id == control.element
    IN  IF s.dom[id].tag = "path"
        THEN [s EXCEPT !.dom[id].g.d =
                 updatePathControlPoint(@, control.segmentIndex, control.controlIndex,
                                        newX, newY)]
        ELSE s

\* a dashed line of the svg from a to b
HandleLine(a, b) == [x1 |-> a.x, y1 |-> a.y, x2 |-> b.x, y2 |-> b.y]

removeControlPointHandles(s) == [s EXCEPT !.controlHandles = <<>>]

\* showControlPointHandles: two lines, appended to the svg, for the curve of
\* the selected control point
showControlPointHandles(s) ==
    LET s1 == removeControlPointHandles(s)
    IN  IF IsNull(s.selectedControlPoint) THEN s1
        ELSE LET control == Get(s.selectedControlPoint)
                 e == s.dom[control.element]
             IN  IF e.tag # "path" THEN s1
                 ELSE LET d == e.g.d
                          curveCommandIndex == CurveCommandIndex(d, control.segmentIndex)
                      IN  IF curveCommandIndex = -1 \/ ~Matches(d[curveCommandIndex + 1])
                          THEN s1
                          ELSE LET c == d[curveCommandIndex + 1]
                                   start == Pt2(Sub(c.p.x, Sub(c.c2.x, c.c1.x)),
                                                Sub(c.p.y, Sub(c.c2.y, c.c1.y)))
                               IN  [s1 EXCEPT !.controlHandles =
                                       <<HandleLine(start, c.c1), HandleLine(c.c2, c.p)>>]

updateControlPointDragging(s, pos) ==
    IF IsNull(s.selectedControlPoint) THEN s
    ELSE LET newX == Sub(pos.x, s.controlDragOffset.x)
             newY == Sub(pos.y, s.controlDragOffset.y)
             control == Get(s.selectedControlPoint)
             s1 == [s EXCEPT !.controlPoints[control.point].x = newX,
                             !.controlPoints[control.point].y = newY,
                             !.selectedControlPoint =
                                 Some([control EXCEPT !.x = newX, !.y = newY])]
         IN  showControlPointHandles(updatePathGeometryForControlPoint(s1, newX, newY))

finishControlPointDragging(s) ==
    removeControlPointHandles(
        [s EXCEPT !.isDraggingControl = FALSE, !.controlDragOffset = ZeroOffset])

\* ------------------------------------------------------------------------
\* Drawing tools (DrawingTool, LineTool, RectangleTool, CircleTool)
\* ------------------------------------------------------------------------
createElement(tool, pos) ==
    CASE tool = "line" ->
           NewElement("line", [x1 |-> pos.x, y1 |-> pos.y, x2 |-> pos.x, y2 |-> pos.y])
      [] tool = "rectangle" ->
           NewElement("rect", [x |-> pos.x, y |-> pos.y, width |-> Num(0), height |-> Num(0)])
      [] tool = "circle" ->
           NewElement("circle", [cx |-> pos.x, cy |-> pos.y, r |-> Num(0)])

updateElement(tool, e, start, pos) ==
    CASE tool = "line" -> [e EXCEPT !.g.x2 = pos.x, !.g.y2 = pos.y]
      [] tool = "rectangle" ->
           IF IsNull(start) THEN e
           ELSE [e EXCEPT !.g = [x |-> MathMin(Get(start).x, pos.x),
                                 y |-> MathMin(Get(start).y, pos.y),
                                 width |-> MathAbs(Sub(pos.x, Get(start).x)),
                                 height |-> MathAbs(Sub(pos.y, Get(start).y))]]
      [] tool = "circle" ->
           IF IsNull(start) THEN e
           ELSE LET dx == Sub(pos.x, Get(start).x)
                    dy == Sub(pos.y, Get(start).y)
                IN  [e EXCEPT !.g.r = MathSqrt(Add(Mul(dx, dx), Mul(dy, dy)))]

startDrawing(s, tool, pos) ==
    [s EXCEPT !.dom = Append(@, createElement(tool, pos)),
              !.drawingTools[tool] =
                  [isDrawing |-> TRUE, currentElement |-> Some(Len(s.dom) + 1),
                   drawingStartPoint |-> Some(pos)]]

updateDrawing(s, tool, pos) ==
    LET t == s.drawingTools[tool]
    IN  IF t.isDrawing /\ ~IsNull(t.currentElement)
        THEN [s EXCEPT !.dom[Get(t.currentElement)] =
                 updateElement(tool, @, t.drawingStartPoint, pos)]
        ELSE s

\* finalizeElement: the element joins the list, then is cloned
finalizeElement(s, id) ==
    handleDrawRepeatForNewElement(
        updateLayersList([s EXCEPT !.elements = Append(@, id)]), id)

finishDrawing(s, tool) ==
    LET t == s.drawingTools[tool]
    IN  IF t.isDrawing /\ ~IsNull(t.currentElement)
        THEN [finalizeElement(s, Get(t.currentElement)) EXCEPT !.drawingTools[tool] = IdleTool]
        ELSE s

\* ------------------------------------------------------------------------
\* PathTool
\* ------------------------------------------------------------------------
\* a segment of pathSegments; a control point is Null or Some(point)
Segment(type, startPoint, endPoint, control1, control2) ==
    [type |-> type, startPoint |-> startPoint, endPoint |-> endPoint,
     control1 |-> control1, control2 |-> control2]

\* the start of the next segment: the end of the last one
LastEnd(t) == t.pathSegments[Len(t.pathSegments)].endPoint

startNewPath(s, pos) ==
    [s EXCEPT !.dom = Append(@, NewElement("path", [d |-> <<[op |-> "M", p |-> pos]>>])),
              !.pathTool.currentPath = Some(Len(s.dom) + 1),
              !.pathTool.pathPoints = <<pos>>,
              !.pathTool.pathSegments = <<Segment("line", pos, pos, Null, Null)>>]

\* a faulty serialization: the control points of a curve change places
buildPathDataControlsSwapped(pathSegments) ==
    IF pathSegments = <<>> THEN <<>>
    ELSE <<[op |-> "M", p |-> pathSegments[1].startPoint]>>
         \o [k \in 1..Len(pathSegments) |->
                LET segment == pathSegments[k]
                IN  IF segment.type = "line"
                    THEN [op |-> "L", p |-> segment.endPoint]
                    ELSE [op |-> "C", c1 |-> Get(segment.control2),
                          c2 |-> Get(segment.control1), p |-> segment.endPoint]]

buildPathDataFromSegments(pathSegments) ==
    IF pathSegments = <<>> THEN <<>>
    ELSE <<[op |-> "M", p |-> pathSegments[1].startPoint]>>
         \o [k \in 1..Len(pathSegments) |->
                LET segment == pathSegments[k]
                IN  IF segment.type = "line"
                    THEN [op |-> "L", p |-> segment.endPoint]
                    ELSE [op |-> "C", c1 |-> Get(segment.control1),
                          c2 |-> Get(segment.control2), p |-> segment.endPoint]]

\* updatePathFromSegments
updatePathFromSegments(s) ==
    IF IsNull(s.pathTool.currentPath) THEN s
    ELSE [s EXCEPT !.dom[Get(s.pathTool.currentPath)].g.d =
             buildPathDataFromSegments(s.pathTool.pathSegments)]

\* a faulty addPathPoint: the new segment starts at the first point of the path
addPathPointFromFirst(s, pos) ==
    IF IsNull(s.pathTool.currentPath) THEN startNewPath(s, pos)
    ELSE updatePathFromSegments(
             [s EXCEPT !.pathTool.pathPoints = Append(@, pos),
                       !.pathTool.pathSegments =
                           Append(@, Segment("line", s.pathTool.pathPoints[1], pos, Null, Null))])

\* addPathPoint, with addPointToPath
addPathPoint(s, pos) ==
    IF IsNull(s.pathTool.currentPath) THEN startNewPath(s, pos)
    ELSE updatePathFromSegments(
             [s EXCEPT !.pathTool.pathPoints = Append(@, pos),
                       !.pathTool.pathSegments =
                           Append(@, Segment("line", LastEnd(s.pathTool), pos, Null, Null))])

\* faulty control points: the weights 0.3 and 0.7 have changed places
CurveControlsWeightsSwapped(startPoint, curveStartPoint, pos) ==
    [control1 |-> Pt2(Add(startPoint.x, Mul(Sub(curveStartPoint.x, startPoint.x), Norm(7, 10))),
                      Add(startPoint.y, Mul(Sub(curveStartPoint.y, startPoint.y), Norm(7, 10)))),
     control2 |-> Pt2(Add(curveStartPoint.x, Mul(Sub(pos.x, curveStartPoint.x), Norm(3, 10))),
                      Add(curveStartPoint.y, Mul(Sub(pos.y, curveStartPoint.y), Norm(3, 10))))]

\* the two control points of a curve from startPoint, pressed at
\* curveStartPoint and ending at pos
CurveControls(startPoint, curveStartPoint, pos) ==
    [control1 |-> Pt2(Add(startPoint.x, Mul(Sub(curveStartPoint.x, startPoint.x), Norm(3, 10))),
                      Add(startPoint.y, Mul(Sub(curveStartPoint.y, startPoint.y), Norm(3, 10)))),
     control2 |-> Pt2(Add(curveStartPoint.x, Mul(Sub(pos.x, curveStartPoint.x), Norm(7, 10))),
                      Add(curveStartPoint.y, Mul(Sub(pos.y, curveStartPoint.y), Norm(7, 10))))]

createCurvedSegment(s, endPoint) ==
    LET startPoint == LastEnd(s.pathTool)
        c == CurveControls(startPoint, Get(s.pathTool.curveStartPoint), endPoint)
    IN  updatePathFromSegments(
            [s EXCEPT !.pathTool.pathSegments =
                Append(@, Segment("curve", startPoint, endPoint,
                                  Some(c.control1), Some(c.control2)))])

startPathInteraction(s, pos) ==
    [s EXCEPT !.pathTool.isDrawing = TRUE, !.pathTool.mouseDownPos = Some(pos),
              !.pathTool.isDragging = FALSE, !.pathTool.curveStartPoint = Some(pos),
              !.pathTool.isCreatingCurve = TRUE]

\* PathTool.updateDrawing and updateElement, with updateCurvePreview and
\* updatePathPreview; Math.sqrt(d2) > 5 is d2 > 25
PathUpdateDrawing(s, pos) ==
    LET t == s.pathTool
        far == /\ ~IsNull(t.mouseDownPos) /\ ~t.isDragging
               /\ LET dx == Sub(pos.x, Get(t.mouseDownPos).x)
                      dy == Sub(pos.y, Get(t.mouseDownPos).y)
                  IN  Gt(Add(Mul(dx, dx), Mul(dy, dy)), Num(25))
        s1 == [s EXCEPT !.pathTool.isDragging = @ \/ far]
    IN  IF ~t.isDrawing THEN s
        ELSE IF s1.pathTool.isDragging /\ t.isCreatingCurve /\ ~IsNull(t.curveStartPoint)
        THEN LET s2 == IF IsNull(t.currentPath)
                       THEN startNewPath(s1, Get(t.curveStartPoint)) ELSE s1
                 t2 == s2.pathTool
                 c == CurveControls(LastEnd(t2), Get(t.curveStartPoint), pos)
             IN  [s2 EXCEPT !.dom[Get(t2.currentPath)].g.d =
                     buildPathDataFromSegments(t2.pathSegments)
                     \o <<[op |-> "C", c1 |-> c.control1, c2 |-> c.control2, p |-> pos]>>,
                            !.pathTool.controlPreviewLines =
                                <<HandleLine(LastEnd(t2), c.control1),
                                  HandleLine(c.control2, pos)>>]
        ELSE IF ~IsNull(t.currentPath) /\ Len(t.pathSegments) > 0
        THEN [s1 EXCEPT !.dom[Get(t.currentPath)].g.d =
                 buildPathDataFromSegments(t.pathSegments) \o <<[op |-> "L", p |-> pos]>>]
        ELSE s1

\* PathTool.finishDrawing and finalizeElement
PathFinishDrawing(s, pos) ==
    LET t == s.pathTool
        s1 == IF t.isDragging /\ t.isCreatingCurve /\ ~IsNull(t.curveStartPoint)
              THEN createCurvedSegment(
                       IF IsNull(t.currentPath)
                       THEN startNewPath(s, Get(t.curveStartPoint)) ELSE s, pos)
              ELSE s
    IN  IF ~t.isDrawing THEN s
        ELSE [s1 EXCEPT !.pathTool.isCreatingCurve = FALSE,
                        !.pathTool.curveStartPoint = Null,
                        !.pathTool.isDragging = FALSE,
                        !.pathTool.mouseDownPos = Null,
                        !.pathTool.isDrawing = FALSE,
                        !.pathTool.controlPreviewLines = <<>>]

\* finishPath: the path joins the list, then is cloned
finishPath(s) ==
    IF IsNull(s.pathTool.currentPath) THEN s
    ELSE finalizeElement([s EXCEPT !.pathTool.currentPath = Null,
                                   !.pathTool.pathPoints = <<>>,
                                   !.pathTool.pathSegments = <<>>,
                                   !.pathTool.controlPreviewLines = <<>>],
                         Get(s.pathTool.currentPath))

\* ------------------------------------------------------------------------
\* PropertiesManager: a change of a property control
\* ------------------------------------------------------------------------
\* the depth of listener calls at which the engine throws a RangeError
MaxCalls == 3

updateSelectedElement(s, id) ==
    [s EXCEPT !.dom[id].style = AppliedStyle(s.propertiesManager.currentProperties)]

\* handlePropertyChange down to its last statement, the emit
handlePropertyChange(s, property, value) ==
    LET s1 == IF property = "stroke-width"
              THEN [s EXCEPT !.propertiesManager.currentProperties.strokeWidth = value]
              ELSE IF property = "opacity"
              THEN [s EXCEPT !.propertiesManager.currentProperties.opacity = value]
              ELSE IF property = "stroke"
              THEN [s EXCEPT !.propertiesManager.currentProperties.stroke = value]
              ELSE IF property = "fill"
              THEN [s EXCEPT !.propertiesManager.currentProperties.fill = value]
              ELSE s
    IN  IF ~IsNull(s1.propertiesManager.selectedElement)
        THEN updateSelectedElement(s1, Get(s1.propertiesManager.selectedElement))
        ELSE s1

\* eventBus.emit('propertyChanged', {property, value}) of a synchronous bus:
\* the one listener of the event is called before emit returns
emitPropertyChanged(s, property, value) ==
    LET s1 == [s EXCEPT !.propertiesManager.calls =
                           Append(@, [property |-> property, value |-> value])]
    IN  handlePropertyChange(s1, property, value)

\* the controls of the properties panel and the event each one emits
PropertyInputs ==
    {<<"stroke-width", "5">>, <<"opacity", Norm(1, 2)>>,
     <<"stroke", "#ffffff">>, <<"stroke", "#ff0000">>, <<"fill", "#00ff00">>}

\* ------------------------------------------------------------------------
\* SVGVectorEditor: tools, mouse and keyboard handlers
\* ------------------------------------------------------------------------
setTool(s, tool) ==
    LET s0 == IF s.currentTool = "path" /\ ~IsNull(s.pathTool.currentPath)
              THEN finishPath(s) ELSE s
        s1 == clearRepeatPoints([s0 EXCEPT !.currentTool = tool,
                                           !.propertiesManager.selectedElement = Null])
    IN  IF tool = "anchor" THEN showAllAnchorPoints(s1)
        ELSE removeControlPointHandles(hideAllAnchorPoints(s1))

handleMouseDown(s, pos, target) ==
    LET s1 == [s EXCEPT !.isDrawing = TRUE]
    IN  IF s.currentTool = "select" /\ ~IsNull(s.selectedElement)
           /\ target = OnElement(Get(s.selectedElement))
        THEN startDragging(s1, pos)
        ELSE IF s.currentTool = "anchor" /\ ~IsNull(s.selectedAnchorPoint)
                /\ s.isDraggingAnchor
        THEN s1
        ELSE IF s.currentTool = "anchor" /\ ~IsNull(s.selectedControlPoint)
                /\ s.isDraggingControl
        THEN s1
        ELSE IF s.currentTool \in ShapeTools THEN startDrawing(s1, s.currentTool, pos)
        ELSE IF s.currentTool = "path" THEN startPathInteraction(s1, pos)
        ELSE s1

handleMouseMove(s, pos) ==
    IF s.isDraggingElement /\ ~IsNull(s.selectedElement) THEN updateDragging(s, pos)
    ELSE IF s.isDraggingAnchor /\ ~IsNull(s.selectedAnchorPoint)
    THEN updateAnchorPointDragging(s, pos)
    ELSE IF s.isDraggingControl /\ ~IsNull(s.selectedControlPoint)
    THEN updateControlPointDragging(s, pos)
    ELSE IF ~s.isDrawing THEN s
    ELSE IF s.currentTool \in ShapeTools THEN updateDrawing(s, s.currentTool, pos)
    ELSE IF s.currentTool = "path" THEN PathUpdateDrawing(s, pos)
    ELSE s

handleMouseUp(s, pos) ==
    IF s.isDraggingElement THEN finishDragging(s)
    ELSE IF s.isDraggingAnchor THEN finishAnchorPointDragging(s)
    ELSE IF s.isDraggingControl THEN finishControlPointDragging(s)
    ELSE IF ~s.isDrawing THEN s
    ELSE LET s1 == [s EXCEPT !.isDrawing = FALSE]
         IN  IF s.currentTool \in ShapeTools THEN finishDrawing(s1, s.currentTool)
             ELSE IF s.currentTool = "path" THEN PathFinishDrawing(s1, pos)
             ELSE s1

handleSelectClick(s, target) ==
    CASE target.kind = "svg" -> clearSelection(s)
      [] target.kind = "element" -> selectElement(s, target.id)
      [] OTHER -> s

handleClick(s, target, pos, detail) ==
    IF s.currentTool = "select" THEN handleSelectClick(s, target)
    ELSE IF s.currentTool = "path"
    THEN IF detail = 2 THEN finishPath(s)
         ELSE IF ~s.pathTool.isDragging THEN addPathPoint(s, pos)
         ELSE s
    ELSE s

\* the children of the svg element, which is what outerHTML writes: the
\* shapes in the order they were appended (a node's id is its place in that
\* order) and the dashed lines of the curve preview and of the control
\* handles; where the lines stand among the shapes is left out
svgData(s) ==
    [shapes |-> SelectSeq([id \in 1..Len(s.dom) |-> id], LAMBDA id : s.dom[id].attached),
     lines |-> s.pathTool.controlPreviewLines \o s.controlHandles]

\* downloadSVG: the file holds svgData; the editor shows a message
downloadSVG(s) == [s EXCEPT !.message = Some("success")]

\* a faulty deletion: the selection is left as it was
deleteElementKeepingSelection(s, id) ==
    LET index == IndexOf(s.elements, id)
    IN  IF index > -1
        THEN updateLayersList([s EXCEPT
                 !.elements = SubSeq(@, 1, index) \o SubSeq(@, index + 2, Len(@)),
                 !.dom[id].attached = FALSE])
        ELSE s

deleteElement(s, id) ==
    LET index == IndexOf(s.elements, id)
    IN  IF index > -1
        THEN LET s1 == [s EXCEPT
                         !.elements = SubSeq(@, 1, index) \o SubSeq(@, index + 2, Len(@)),
                         !.dom[id].attached = FALSE]
                 s2 == updateLayersList(clearSelection(s1))
             IN  IF ~IsNull(s2.selectedRepeatPoint)
                    /\ Get(s2.selectedRepeatPoint).element = id
                 THEN [s2 EXCEPT !.selectedRepeatPoint = Null]
                 ELSE s2
        ELSE s

deleteSelectedElement(s) ==
    IF IsNull(s.selectedElement) THEN s ELSE deleteElement(s, Get(s.selectedElement))

cancelCurrentOperation(s) ==
    LET s1 == IF ~IsNull(s.pathTool.currentPath) THEN finishPath(s) ELSE s
    IN  clearSelection([s1 EXCEPT !.isDrawing = FALSE,
                                  !.pathTool.controlPreviewLines = <<>>])

clearCanvas(s) ==
    LET s1 == [s EXCEPT
                 !.dom = [id \in 1..Len(s.dom) |->
                            IF IndexOf(s.elements, id) > -1
                            THEN [s.dom[id] EXCEPT !.attached = FALSE] ELSE s.dom[id]],
                 !.elements = <<>>]
        s2 == IF IsNull(s.pathTool.currentPath) THEN s1
              ELSE [s1 EXCEPT !.dom[Get(s.pathTool.currentPath)].attached = FALSE,
                              !.pathTool.currentPath = Null,
                              !.pathTool.pathPoints = <<>>]
    IN  [clearSelection(s2) EXCEPT !.selectedRepeatPoint = Null,
                                   !.message = Some("success")]

handleCreateRepeatPoints(s) ==
    IF IsNull(s.selectedElement)
    THEN [s EXCEPT !.message = Some("error")]
    ELSE LET id == Get(s.selectedElement)
             tag == s.dom[id].tag
         IN  IF ~(tag = "line" \/ tag = "path")
             THEN [s EXCEPT !.message = Some("error")]
             ELSE LET count == MathMax(Num(1),
                                   MathMin(Num(500), OrElse(s.repeatCountValue, Num(10))))
                  IN  renderRepeatPoints(
                          [s EXCEPT !.dom[id] = createOrUpdateRepeatPoints(@, count)], id)

\* the 'change' listener of the repeatCount input
repeatCountChange(s) ==
    IF IsNull(s.selectedElement) THEN s
    ELSE LET id == Get(s.selectedElement)
         IN  renderRepeatPoints(
                 [s EXCEPT !.dom[id] = createOrUpdateRepeatPoints(@, s.repeatCountValue)], id)

\* ------------------------------------------------------------------------
\* The user's gestures
\* ------------------------------------------------------------------------
\* where the pointer takes hold of an element: on its outline
GrabPoint(e) ==
    CASE e.tag = "circle" -> Pt2(Add(e.g.cx, e.g.r), e.g.cy)
      [] e.tag = "path" -> IF e.g.d = <<>> THEN Pt(0) ELSE e.g.d[1].p
      [] OTHER -> Get(ShapeReferencePoint(e))

\* where the next shape is begun: the shapes of a run start at Pt(0), Pt(1), ...
PressAt == Pt(drawn % (MaxPos + 1))

\* no button is held and no message is on the screen: a new gesture can begin
\* a listener of propertyChanged is running: no other event is handled
\* before it has returned
Dispatching == propertiesManager.calls # <<>>

Idle == mouse = "up" /\ IsNull(message) /\ ~Dispatching

\* a tool button is clicked
SetTool(tool) ==
    /\ Idle
    /\ tool # currentTool
    /\ Becomes(setTool(Now, tool))
    /\ UNCHANGED <<mouse, downTarget, drawn, edits>>

\* a control of the properties panel changes: its listener emits the event
\* and the handler runs down to its own emit
PropertyInput(property, value) ==
    /\ Idle
    /\ Becomes(emitPropertyChanged(
                   [Now EXCEPT !.propertiesManager.error = Null], property, value))
    /\ UNCHANGED <<mouse, downTarget, drawn, edits>>

\* the emit that ends the running handler calls the listener again
PropertyListenerRun ==
    /\ Dispatching
    /\ Len(propertiesManager.calls) < MaxCalls
    /\ LET e == propertiesManager.calls[Len(propertiesManager.calls)]
       IN  Becomes(emitPropertyChanged(Now, e.property, e.value))
    /\ UNCHANGED <<mouse, downTarget, drawn, edits>>

\* the call stack is exhausted: the next call throws, the exception unwinds
\* every running handler and ends the dispatch of the input event
PropertyCallsExhausted ==
    /\ Len(propertiesManager.calls) = MaxCalls
    /\ Becomes([Now EXCEPT !.propertiesManager.calls = <<>>,
                           !.propertiesManager.error = Some("RangeError")])
    /\ UNCHANGED <<mouse, downTarget, drawn, edits>>

\* the button goes down on the empty canvas
MouseDownCanvas(pos) ==
    /\ Idle
    /\ currentTool \in ShapeTools => drawn < MaxDrawn /\ pos = PressAt
    /\ currentTool = "path" =>
          IF IsNull(pathTool.currentPath) THEN drawn < MaxDrawn
          ELSE Len(pathTool.pathSegments) < MaxSegments
    /\ Becomes(handleMouseDown(Now, pos, OnCanvas))
    /\ mouse' = "down"
    /\ downTarget' = OnCanvas
    /\ drawn' = IF \/ currentTool \in ShapeTools
                   \/ currentTool = "path" /\ IsNull(pathTool.currentPath)
                THEN drawn + 1 ELSE drawn
    /\ UNCHANGED edits

\* the button goes down on a shape (select tool)
MouseDownElement(id) ==
    /\ Idle
    /\ currentTool = "select"
    /\ dom[id].attached
    /\ Becomes(handleMouseDown(Now, GrabPoint(dom[id]), OnElement(id)))
    /\ mouse' = "down"
    /\ downTarget' = OnElement(id)
    /\ UNCHANGED <<drawn, edits>>

\* the button goes down on repeat-point marker k: its own listener runs and
\* stops the event
MouseDownMarker(k) ==
    /\ Idle
    /\ Becomes(setActiveRepeatPoint(Now, repeatPoints[k].element, repeatPoints[k].index))
    /\ mouse' = "down"
    /\ downTarget' = OnOverlay
    /\ UNCHANGED <<drawn, edits>>

\* where on a handle the pointer takes hold of it: pointer minus handle position
GrabOffsets == {ZeroOffset, Pt2(Num(2), Num(1))}

\* the button goes down on selectable anchor handle k, off its position by off
MouseDownAnchorAt(k, off) ==
    /\ Idle
    /\ anchorPoints[k].selectable
    /\ LET s1 == selectAnchorPoint(Now, k)
           at == MovePoint(Pt2(anchorPoints[k].x, anchorPoints[k].y), off.x, off.y)
       IN  Becomes(IF currentTool = "anchor" THEN startAnchorPointDragging(s1, at) ELSE s1)
    /\ mouse' = "down"
    /\ downTarget' = OnOverlay
    /\ UNCHANGED <<drawn, edits>>

MouseDownAnchor(k) == MouseDownAnchorAt(k, ZeroOffset)

\* the button goes down on control handle k, off its position by off
MouseDownControl(k, off) ==
    /\ Idle
    /\ LET s1 == selectControlPoint(Now, k)
           at == MovePoint(Pt2(controlPoints[k].x, controlPoints[k].y), off.x, off.y)
       IN  Becomes(IF currentTool = "anchor" THEN startControlPointDragging(s1, at) ELSE s1)
    /\ mouse' = "down"
    /\ downTarget' = OnOverlay
    /\ UNCHANGED <<drawn, edits>>

\* a pointer move drags when handleMouseMove takes one of its drag branches
Drags ==
    \/ isDraggingElement /\ ~IsNull(selectedElement)
    \/ isDraggingAnchor /\ ~IsNull(selectedAnchorPoint)
    \/ isDraggingControl /\ ~IsNull(selectedControlPoint)

MouseMove(pos) ==
    /\ mouse = "down" /\ ~Dispatching
    /\ Drags => edits < MaxEdits
    /\ Becomes(handleMouseMove(Now, pos))
    /\ edits' = IF Drags THEN edits + 1 ELSE edits
    /\ UNCHANGED <<mouse, downTarget, drawn>>

\* the pointer moves while no button is held
Hover(pos) ==
    /\ mouse = "up" /\ ~Dispatching
    /\ Becomes(handleMouseMove(Now, pos))
    /\ UNCHANGED <<mouse, downTarget, drawn, edits>>

\* what the click that follows a mouseup lands on: the node the button went
\* down on, or the canvas when that node has left the document meanwhile
ClickTarget ==
    IF downTarget.kind = "element" /\ ~dom[downTarget.id].attached THEN OnCanvas
    ELSE downTarget

\* where the pointer is when the button is released: where the last move of a
\* path drag left it (the end of the previewed curve), else where it went down
ReleasePos ==
    IF currentTool = "path" /\ isDrawing /\ pathTool.isDragging
       /\ ~IsNull(pathTool.currentPath)
    THEN LET d == dom[Get(pathTool.currentPath)].g.d IN d[Len(d)].p
    ELSE IF ~IsNull(pathTool.mouseDownPos) THEN Get(pathTool.mouseDownPos)
    ELSE Pt(0)

\* the button is released: mouseup, then the click event that follows it;
\* detail is 2 when the click completes a double click, which takes a click
\* at the same place before it
MouseUpDetail(detail) ==
    /\ mouse = "down" /\ ~Dispatching
    /\ detail = 2 =>
          /\ currentTool = "path" /\ ~pathTool.isDragging
          /\ pathTool.pathPoints # <<>>
          /\ pathTool.pathPoints[Len(pathTool.pathPoints)] = ReleasePos
    /\ Becomes(handleClick(handleMouseUp(Now, ReleasePos), ClickTarget, ReleasePos, detail))
    /\ mouse' = "up"
    /\ downTarget' = OnCanvas
    /\ UNCHANGED <<drawn, edits>>

MouseUp == MouseUpDetail(1)

\* Enter is pressed
KeyEnter ==
    /\ IsNull(message) /\ ~Dispatching
    /\ Becomes(IF currentTool = "path" THEN finishPath(Now) ELSE Now)
    /\ UNCHANGED <<mouse, downTarget, drawn, edits>>

KeyDelete ==
    /\ IsNull(message) /\ ~Dispatching
    /\ Becomes(deleteSelectedElement(Now))
    /\ UNCHANGED <<mouse, downTarget, drawn, edits>>

KeyEscape ==
    /\ IsNull(message) /\ ~Dispatching
    /\ Becomes(cancelCurrentOperation(Now))
    /\ UNCHANGED <<mouse, downTarget, drawn, edits>>

ClearCanvasClick ==
    /\ Idle
    /\ Becomes(clearCanvas(Now))
    /\ UNCHANGED <<mouse, downTarget, drawn, edits>>

\* the download button is clicked
DownloadClick ==
    /\ Idle
    /\ Becomes(downloadSVG(Now))
    /\ UNCHANGED <<mouse, downTarget, drawn, edits>>

\* a row of the layers list is clicked
LayerClick(id) ==
    /\ Idle
    /\ IndexOf(elements, id) > -1
    /\ Becomes(selectElement(Now, id))
    /\ UNCHANGED <<mouse, downTarget, drawn, edits>>

\* the bin of a row of the layers list is clicked
LayerDelete(id) ==
    /\ Idle
    /\ IndexOf(elements, id) > -1
    /\ Becomes(deleteElement(Now, id))
    /\ UNCHANGED <<mouse, downTarget, drawn, edits>>

CreateRepeatPointsClick ==
    /\ Idle
    /\ Becomes(handleCreateRepeatPoints(Now))
    /\ UNCHANGED <<mouse, downTarget, drawn, edits>>

\* a value is typed into the repeatCount input and committed
RepeatCountChange(v) ==
    /\ Idle
    /\ v # repeatCountValue
    /\ Becomes(repeatCountChange([Now EXCEPT !.repeatCountValue = v]))
    /\ UNCHANGED <<mouse, downTarget, drawn, edits>>

\* showMessage's timer removes the message
MessageTimeout ==
    /\ ~IsNull(message) /\ ~Dispatching
    /\ message' = Null
    /\ UNCHANGED <<currentTool, isDrawing, elements, dom, drawingTools, pathTool,
                   selectedElement,
                   isDraggingElement, dragOffset, selectedRepeatPoint, repeatPoints,
                   anchorPoints, selectedAnchorPoint, isDraggingAnchor, anchorDragOffset,
                   controlPoints, selectedControlPoint, isDraggingControl,
                   controlDragOffset, controlHandles, propertiesManager, repeatCountValue,
                   mouse, downTarget, drawn, edits>>

\* ------------------------------------------------------------------------
\* Specifications
\* ------------------------------------------------------------------------
\* every gesture of the editor
Next ==
    \/ \E tool \in Tools : SetTool(tool)
    \/ \E pos \in Pos : MouseDownCanvas(pos)
    \/ \E id \in 1..Len(dom) : MouseDownElement(id)
    \/ \E k \in 1..Len(repeatPoints) : MouseDownMarker(k)
    \/ \E k \in 1..Len(anchorPoints) : MouseDownAnchor(k)
    \/ \E k \in 1..Len(controlPoints) : MouseDownControl(k, ZeroOffset)
    \/ \E pos \in Pos : MouseMove(pos)
    \/ \E detail \in {1, 2} : MouseUpDetail(detail)
    \/ KeyDelete
    \/ KeyEscape
    \/ KeyEnter
    \/ ClearCanvasClick
    \/ DownloadClick
    \/ \E id \in 1..Len(dom) : LayerClick(id)
    \/ \E id \in 1..Len(dom) : LayerDelete(id)
    \/ CreateRepeatPointsClick
    \/ \E v \in CountValues : RepeatCountChange(v)
    \/ \E in \in PropertyInputs : PropertyInput(in[1], in[2])
    \/ PropertyListenerRun
    \/ PropertyCallsExhausted
    \/ MessageTimeout

Spec == Init /\ [][Next]_vars

\* drawing and repeating: shapes are drawn, picked in the layers list, given
\* repeat points, and drawn again
DrawTools == {"select", "line", "rectangle", "circle"}

NextRepeat ==
    \/ \E tool \in DrawTools : SetTool(tool)
    \/ \E pos \in Pos : MouseDownCanvas(pos)
    \/ \E k \in 1..Len(repeatPoints) : MouseDownMarker(k)
    \/ \E pos \in Pos : MouseMove(pos)
    \/ MouseUp
    \/ \E id \in 1..Len(dom) : LayerClick(id)
    \/ CreateRepeatPointsClick
    \/ \E v \in CountValues : RepeatCountChange(v)
    \/ MessageTimeout

SpecRepeat == Init /\ [][NextRepeat]_vars

\* editing: lines are drawn, picked on the canvas, given repeat points, and
\* dragged as a whole or by their anchor handles
EditTools == {"select", "anchor", "line"}

NextEdit ==
    \/ \E tool \in EditTools : SetTool(tool)
    \/ \E pos \in Pos : MouseDownCanvas(pos)
    \/ \E id \in 1..Len(dom) : MouseDownElement(id)
    \/ \E k \in 1..Len(anchorPoints) : MouseDownAnchor(k)
    \/ \E pos \in Pos : MouseMove(pos)
    \/ MouseUp
    \/ CreateRepeatPointsClick
    \/ \E v \in CountValues : RepeatCountChange(v)
    \/ MessageTimeout

SpecEdit == Init /\ [][NextEdit]_vars

\* sampling: one line or path of arbitrary geometry is on the canvas and
\* selected; counts are committed in the repeatCount input or the create
\* button is pressed, so that computeRepeatPointsForElement runs on every
\* pair of a shape and a count
SampleCoords == {Num(3 * i) : i \in 0..MaxSampleCoord}

SampleLines ==
    {NewElement("line", [x1 |-> a, y1 |-> b, x2 |-> c, y2 |-> d]) :
        a \in SampleCoords, b \in SampleCoords, c \in SampleCoords, d \in SampleCoords}

SamplePaths ==
    {NewElement("path", [d |-> <<[op |-> "M", p |-> p]>>]) : p \in Pos}
    \cup {NewElement("path", [d |-> <<[op |-> "M", p |-> p], [op |-> "L", p |-> q]>>]) :
            p \in Pos, q \in Pos}
    \cup {NewElement("path", [d |-> <<[op |-> "M", p |-> p], [op |-> "L", p |-> q],
                                      [op |-> "L", p |-> Pt2(q.x, p.y)]>>]) :
            p \in Pos, q \in Pos}
    \cup {NewElement("path", [d |-> <<[op |-> "M", p |-> p],
                                      [op |-> "C", c1 |-> Pt2(p.x, q.y),
                                       c2 |-> Pt2(q.x, p.y), p |-> q]>>]) :
            p \in Pos, q \in Pos}

\* parseInt of what is typed: an integer, or NaN for text that is no number
SampleCounts == {NaN} \cup {Num(c) : c \in -1..MaxSampleCount}

\* the editor after construction, as a record
Fresh(v) ==
    [currentTool |-> "select", isDrawing |-> FALSE, elements |-> <<>>, dom |-> <<>>,
     drawingTools |-> [t \in ShapeTools |-> IdleTool], pathTool |-> IdlePathTool,
     selectedElement |-> Null,
     isDraggingElement |-> FALSE, dragOffset |-> ZeroOffset,
     selectedRepeatPoint |-> Null, repeatPoints |-> <<>>, anchorPoints |-> <<>>,
     selectedAnchorPoint |-> Null, isDraggingAnchor |-> FALSE,
     anchorDragOffset |-> ZeroOffset, controlPoints |-> <<>>,
     selectedControlPoint |-> Null, isDraggingControl |-> FALSE,
     controlDragOffset |-> ZeroOffset, controlHandles |-> <<>>,
     propertiesManager |-> IdlePropertiesManager,
     repeatCountValue |-> v, message |-> Null]

Holds(s) ==
    /\ currentTool = s.currentTool
    /\ isDrawing = s.isDrawing
    /\ elements = s.elements
    /\ dom = s.dom
    /\ drawingTools = s.drawingTools
    /\ pathTool = s.pathTool
    /\ selectedElement = s.selectedElement
    /\ isDraggingElement = s.isDraggingElement
    /\ dragOffset = s.dragOffset
    /\ selectedRepeatPoint = s.selectedRepeatPoint
    /\ repeatPoints = s.repeatPoints
    /\ anchorPoints = s.anchorPoints
    /\ selectedAnchorPoint = s.selectedAnchorPoint
    /\ isDraggingAnchor = s.isDraggingAnchor
    /\ anchorDragOffset = s.anchorDragOffset
    /\ controlPoints = s.controlPoints
    /\ selectedControlPoint = s.selectedControlPoint
    /\ isDraggingControl = s.isDraggingControl
    /\ controlDragOffset = s.controlDragOffset
    /\ controlHandles = s.controlHandles
    /\ propertiesManager = s.propertiesManager
    /\ repeatCountValue = s.repeatCountValue
    /\ message = s.message

InitSample ==
    /\ \E e \in SampleLines \cup SamplePaths, v \in SampleCounts :
          Holds(selectElement([Fresh(v) EXCEPT !.dom = <<e>>, !.elements = <<1>>], 1))
    /\ mouse = "up"
    /\ downTarget = OnCanvas
    /\ drawn = 0
    /\ edits = 0

NextSample ==
    \/ \E v \in SampleCounts : RepeatCountChange(v)
    \/ CreateRepeatPointsClick

SpecSample == InitSample /\ [][NextSample]_vars

\* anchor editing: one shape of arbitrary kind is on the canvas, alone or with
\* a second shape beside it, and the anchor tool is chosen; handles are
\* pressed and dragged, and the tool is left and chosen again
DragPos ==
    {Pt2(Num(8 * i), Num(6 * j)) : i \in 0..MaxDragStep, j \in 0..MaxDragStep}
    \cup {Pt2(Num(40), Num(20))}

\* a path's d as its commands: M x y, L x y, and C c1 c2 p given as six numbers
PathOf(cmds) ==
    [k \in 1..Len(cmds) |->
        LET c == cmds[k]
        IN  IF Len(c) = 6
            THEN [op |-> "C", c1 |-> Pt2(Num(c[1]), Num(c[2])),
                  c2 |-> Pt2(Num(c[3]), Num(c[4])), p |-> Pt2(Num(c[5]), Num(c[6]))]
            ELSE [op |-> IF k = 1 THEN "M" ELSE "L", p |-> Pt2(Num(c[1]), Num(c[2]))]]

AnchorShapes ==
    {NewElement("rect", [x |-> Num(4), y |-> Num(3), width |-> Num(w), height |-> Num(6)]) :
        w \in {0, 8}}
    \cup {NewElement("circle", [cx |-> Num(8), cy |-> Num(6), r |-> Num(r)]) : r \in {0, 5}}
    \cup {NewElement("line", [x1 |-> Num(0), y1 |-> Num(0), x2 |-> Num(8), y2 |-> Num(6)])}
    \cup {NewElement("path", [d |-> PathOf(cmds)]) :
            cmds \in {<<<<0, 0>>, <<10, 0, 20, 10, 30, 10>>>>,
                      <<<<0, 0>>, <<8, 0>>, <<8, 6, 16, 6, 16, 12>>>>,
                      <<<<0, 0>>, <<0, 6, 8, 6, 8, 0>>, <<8, 6, 16, 6, 16, 0>>>>}}
Bystander == NewElement("line", [x1 |-> Num(0), y1 |-> Num(12), x2 |-> Num(16), y2 |-> Num(0)])

InitAnchor ==
    /\ \E e \in AnchorShapes : \E doms \in {<<e>>, <<e, Bystander>>} :
          Holds(setTool([Fresh(Num(0)) EXCEPT !.dom = doms,
                                              !.elements = [k \in 1..Len(doms) |-> k]],
                        "anchor"))
    /\ mouse = "up"
    /\ downTarget = OnCanvas
    /\ drawn = 0
    /\ edits = 0

AnchorTools == {"anchor", "select"}

NextAnchor ==
    \/ \E tool \in AnchorTools : SetTool(tool)
    \/ \E pos \in Pos : MouseDownCanvas(pos)
    \/ \E k \in 1..Len(anchorPoints), off \in GrabOffsets : MouseDownAnchorAt(k, off)
    \/ \E k \in 1..Len(controlPoints), off \in GrabOffsets : MouseDownControl(k, off)
    \/ \E pos \in (IF Drags THEN DragPos ELSE Pos) : MouseMove(pos)
    \/ \E pos \in DragPos : Hover(pos)
    \/ MouseUp

SpecAnchor == InitAnchor /\ [][NextAnchor]_vars

\* rectangles: they are drawn on the empty canvas and their corner handles
\* are dragged with the anchor tool
RectTools == {"anchor", "rectangle"}

NextRect ==
    \/ \E tool \in RectTools : SetTool(tool)
    \/ \E pos \in Pos : MouseDownCanvas(pos)
    \/ \E k \in 1..Len(anchorPoints) : MouseDownAnchor(k)
    \/ \E pos \in (IF Drags THEN DragPos ELSE Pos) : MouseMove(pos)
    \/ MouseUp

SpecRect == Init /\ [][NextRect]_vars

\* drawing: lines, rectangles, circles and paths are drawn with clicks, drags
\* and double clicks, Escape or Enter is pressed at any moment of a draw, and
\* the canvas is cleared between two presses
SketchTools == {"line", "rectangle", "circle", "path"}

\* no shape is finished yet: the run goes on choosing tools, pressing the
\* button and pressing keys until one is
Sketching == Len(elements) < MaxSketches

NextDraw ==
    \/ \E tool \in SketchTools : Sketching /\ SetTool(tool)
    \/ \E pos \in Pos : Sketching /\ MouseDownCanvas(pos)
    \/ \E pos \in Pos : MouseMove(pos)
    \/ \E detail \in {1, 2} : MouseUpDetail(detail)
    \/ Sketching /\ KeyEscape
    \/ Sketching /\ KeyEnter
    \/ Sketching /\ ClearCanvasClick
    \/ MessageTimeout

SpecDraw == Init /\ [][NextDraw]_vars

\* path anchors by index: updatePathGeometry is called on a path, which may
\* have no commands, with indices inside and outside its anchors, while
\* shapes are selected and given repeat points
UpdatePathGeometryCall(id, pointIndex, pos) ==
    /\ Idle
    /\ dom[id].tag = "path" /\ dom[id].attached
    /\ edits < MaxEdits
    /\ Becomes(updatePathGeometry(Now, id, pointIndex, pos.x, pos.y))
    /\ edits' = edits + 1
    /\ UNCHANGED <<mouse, downTarget, drawn>>

InitPath ==
    /\ \E e \in {a \in AnchorShapes : a.tag = "path"} \cup {NewElement("path", [d |-> <<>>])} :
       \E doms \in {<<e>>, <<e, Bystander>>} :
          Holds(setTool([Fresh(Num(MaxCount)) EXCEPT !.dom = doms,
                            !.elements = [k \in 1..Len(doms) |-> k]], "anchor"))
    /\ mouse = "up"
    /\ downTarget = OnCanvas
    /\ drawn = 0
    /\ edits = 0

NextPath ==
    \/ \E tool \in AnchorTools : SetTool(tool)
    \/ \E id \in 1..Len(dom) : MouseDownElement(id)
    \/ MouseUp
    \/ CreateRepeatPointsClick
    \/ MessageTimeout
    \/ \E id \in 1..Len(dom), pointIndex \in -1..MaxPointIndex, pos \in DragPos :
          UpdatePathGeometryCall(id, pointIndex, pos)

SpecPath == InitPath /\ [][NextPath]_vars

\* deleting: a path and a line are on the canvas; they are selected, given repeat
\* points and edited by their handles, and shapes are deleted
\* with the Delete key or the bin of the layers list, or the canvas is cleared
InitDelete ==
    /\ \E e \in {a \in AnchorShapes : a.tag = "path"} :
          Holds([Fresh(Num(MaxCount)) EXCEPT !.dom = <<e, Bystander>>, !.elements = <<1, 2>>])
    /\ mouse = "up"
    /\ downTarget = OnCanvas
    /\ drawn = 0
    /\ edits = 0

NextDelete ==
    \/ \E tool \in AnchorTools : SetTool(tool)
    \/ \E id \in 1..Len(dom) : MouseDownElement(id)
    \/ \E k \in 1..Len(repeatPoints) : MouseDownMarker(k)
    \/ \E k \in 1..Len(anchorPoints) : MouseDownAnchor(k)
    \/ \E k \in 1..Len(controlPoints) : MouseDownControl(k, ZeroOffset)
    \/ \E pos \in Pos : MouseMove(pos)
    \/ MouseUp
    \/ KeyDelete
    \/ ClearCanvasClick
    \/ \E id \in 1..Len(dom) : LayerClick(id)
    \/ \E id \in 1..Len(dom) : LayerDelete(id)
    \/ CreateRepeatPointsClick
    \/ MessageTimeout

SpecDelete == InitDelete /\ [][NextDelete]_vars

\* translating: one shape of arbitrary kind is on the canvas and its move
\* method is called with steps of either sign, whole and fractional
MoveSteps == {Num(-8), Num(0), Num(3), Norm(1, 2)}

ShapeMoveCall(id, dx, dy) ==
    /\ Idle
    /\ dom[id].attached
    /\ edits < MaxMoves
    /\ Becomes([Now EXCEPT !.dom[id] = ShapeMove(dom[id], dx, dy)])
    /\ edits' = edits + 1
    /\ UNCHANGED <<mouse, downTarget, drawn>>

InitMove ==
    /\ \E e \in AnchorShapes :
          Holds([Fresh(Num(0)) EXCEPT !.dom = <<e>>, !.elements = <<1>>])
    /\ mouse = "up"
    /\ downTarget = OnCanvas
    /\ drawn = 0
    /\ edits = 0

NextMove == \E id \in 1..Len(dom), dx \in MoveSteps, dy \in MoveSteps : ShapeMoveCall(id, dx, dy)

SpecMove == InitMove /\ [][NextMove]_vars

\* export: a line or a path is drawn on the empty canvas, with Escape or
\* Enter pressed at any moment of the draw, the handles of the finished shape
\* are dragged with the anchor tool, and the document is cleared or
\* downloaded between two gestures
ExportTools == {"anchor", "line", "path"}

InitExport ==
    /\ Holds(Fresh(Num(0)))
    /\ mouse = "up"
    /\ downTarget = OnCanvas
    /\ drawn = 0
    /\ edits = 0

NextExport ==
    \/ \E tool \in ExportTools : SetTool(tool)
    \/ \E pos \in Pos : Sketching /\ MouseDownCanvas(pos)
    \/ \E k \in 1..Len(anchorPoints) : MouseDownAnchor(k)
    \/ \E k \in 1..Len(controlPoints) : MouseDownControl(k, ZeroOffset)
    \/ \E pos \in Pos : MouseMove(pos)
    \/ \E detail \in {1, 2} : MouseUpDetail(detail)
    \/ Sketching /\ KeyEscape
    \/ Sketching /\ KeyEnter
    \/ Sketching /\ ClearCanvasClick
    \/ DownloadClick
    \/ MessageTimeout

SpecExport == InitExport /\ [][NextExport]_vars

\* commands off the grammar: a path one of whose commands does not match,
\* having a number written with an exponent, is on the canvas, alone or with
\* a second shape beside it, and its handles are pressed and dragged
Tiny == Norm(1, 10000000)

OffGrammarPaths ==
    {NewElement("path", [d |-> d]) :
        d \in {<<[op |-> "M", p |-> Pt2(Num(0), Num(0))],
                 [op |-> "L", p |-> Pt2(Tiny, Num(12))],
                 [op |-> "L", p |-> Pt2(Num(8), Num(6))]>>,
               <<[op |-> "M", p |-> Pt2(Num(0), Num(0))],
                 [op |-> "C", c1 |-> Pt2(Tiny, Num(6)), c2 |-> Pt2(Num(8), Num(6)),
                  p |-> Pt2(Num(8), Num(0))],
                 [op |-> "C", c1 |-> Pt2(Num(8), Num(6)), c2 |-> Pt2(Num(16), Num(6)),
                  p |-> Pt2(Num(16), Num(0))]>>,
               <<[op |-> "M", p |-> Pt2(Num(0), Num(0))],
                 [op |-> "L", p |-> Pt2(Num(8), Num(6))],
                 [op |-> "L", p |-> Pt2(Tiny, Num(12))]>>}}

InitSkip ==
    /\ \E e \in OffGrammarPaths : \E doms \in {<<e>>, <<e, Bystander>>} :
          Holds(setTool([Fresh(Num(0)) EXCEPT !.dom = doms,
                                              !.elements = [k \in 1..Len(doms) |-> k]],
                        "anchor"))
    /\ mouse = "up"
    /\ downTarget = OnCanvas
    /\ drawn = 0
    /\ edits = 0

NextSkip ==
    \/ \E tool \in AnchorTools : SetTool(tool)
    \/ \E k \in 1..Len(anchorPoints), off \in GrabOffsets : MouseDownAnchorAt(k, off)
    \/ \E k \in 1..Len(controlPoints), off \in GrabOffsets : MouseDownControl(k, off)
    \/ \E pos \in DragPos : MouseMove(pos)
    \/ MouseUp

SpecSkip == InitSkip /\ [][NextSkip]_vars

\* ------------------------------------------------------------------------
\* Path data as text: the d attribute is a string of command letters and
\* numbers, written with template literals and read back with regular
\* expressions
\* ------------------------------------------------------------------------
CommandLetter(op) == [letter |-> op, value |-> Num(0), plain |-> TRUE]

\* the text of one command, token by token
TokensOf(cmd) ==
    IF cmd.op = "C"
    THEN <<CommandLetter("C"), FormatNumber(cmd.c1.x), FormatNumber(cmd.c1.y),
           FormatNumber(cmd.c2.x), FormatNumber(cmd.c2.y),
           FormatNumber(cmd.p.x), FormatNumber(cmd.p.y)>>
    ELSE <<CommandLetter(cmd.op), FormatNumber(cmd.p.x), FormatNumber(cmd.p.y)>>

RECURSIVE WireOf(_)
WireOf(d) == IF d = <<>> THEN <<>> ELSE TokensOf(Head(d)) \o WireOf(Tail(d))

\* d.match(/[MLC]\s*([^MLC]+)/g) and the match of each command: [-\d.]+ takes
\* a plain decimal only; parseFloat gives the number back; a command whose
\* match fails is passed over
RECURSIVE ParseFrom(_, _)
ParseFrom(w, i) ==
    IF i > Len(w) THEN <<>>
    ELSE IF w[i].letter = "" THEN ParseFrom(w, i + 1)
    ELSE LET n == IF w[i].letter = "C" THEN 6 ELSE 2
             matches == /\ i + n <= Len(w)
                        /\ \A j \in 1..n : w[i + j].letter = "" /\ w[i + j].plain
             v(j) == w[i + j].value
         IN  (IF ~matches THEN <<>>
              ELSE IF n = 6
              THEN <<[op |-> "C", c1 |-> Pt2(v(1), v(2)), c2 |-> Pt2(v(3), v(4)),
                      p |-> Pt2(v(5), v(6))]>>
              ELSE <<[op |-> w[i].letter, p |-> Pt2(v(1), v(2))]>>)
             \o ParseFrom(w, i + 1)

ParseWire(w) == ParseFrom(w, 1)

\* ------------------------------------------------------------------------
\* Properties
\* ------------------------------------------------------------------------
\* the release of the button that ends this state finalizes a drawn shape
\* (handleMouseUp reaches finishDrawing, which reaches finalizeElement)
Finalizing ==
    /\ mouse = "down"
    /\ ~isDraggingElement /\ ~isDraggingAnchor /\ isDrawing
    /\ currentTool \in ShapeTools
    /\ drawingTools[currentTool].isDrawing
    /\ ~IsNull(drawingTools[currentTool].currentElement)

FinalizeStep == Finalizing /\ mouse' = "up"

NewId == Get(drawingTools[currentTool].currentElement)

MetaOf(id) == Get(dom[id].meta)

\* the shape selectedRepeatPoint names is a template: it has sampled points
\* and its active index is the index selectedRepeatPoint holds
TemplateActive ==
    /\ ~IsNull(selectedRepeatPoint)
    /\ LET id == Get(selectedRepeatPoint).element
       IN  /\ ~IsNull(dom[id].meta)
           /\ MetaOf(id).points # <<>>
           /\ MetaOf(id).activeIndex = Some(Get(selectedRepeatPoint).index)

TemplatePoints == MetaOf(Get(selectedRepeatPoint).element).points

\* the k-th (1-based) of the indices 0, 1, ... that are not a
Skipping(a, k) == IF k - 1 < a THEN k - 1 ELSE k

C2_CloningOnlyAppends ==
    [][FinalizeStep =>
         /\ \A id \in 1..Len(dom) : dom'[id] = dom[id]
         /\ Len(elements') >= Len(elements) + 1
         /\ SubSeq(elements', 1, Len(elements)) = elements
         /\ elements'[Len(elements) + 1] = NewId
         /\ \A k \in (Len(elements) + 2)..Len(elements') :
              /\ elements'[k] > Len(dom)
              /\ \A j \in 1..(k - 1) : elements'[j] # elements'[k]]_vars

\* a template line, a drawn rectangle and the rectangle's clone, the
\* template's points still being the sampling of its geometry
C2_Witness ==
    /\ mouse = "up"
    /\ Len(elements) = 3
    /\ dom[elements[1]].tag = "line"
    /\ ~IsNull(dom[elements[1]].meta)
    /\ MetaOf(elements[1]).points =
          computeRepeatPointsForElement(dom[elements[1]], MetaOf(elements[1]).count)
    /\ dom[elements[2]].tag = "rect"
    /\ dom[elements[3]].tag = "rect"
    /\ dom[elements[3]].g # dom[elements[2]].g
    /\ dom[elements[3]].g.width = dom[elements[2]].g.width

\* C3: a finalize step appends clones only if the template's RepeatMeta has
\* non-empty points and a non-null activeIndex which is the index used as
\* the cloning origin; after the active point has been deselected, or
\* invalidated by a regeneration, no clone is made until a point is made
\* active again.
C3_ClonesOnlyFromActivePoint ==
    [][FinalizeStep /\ Len(elements') > Len(elements) + 1 => TemplateActive]_vars

\* C4: a click on a marker of a shape makes that index the shape's active
\* index, or clears the active index when the index was active already, and
\* changes neither the points nor the count of any shape.
C4_MarkerClickToggles ==
    [][\A k \in 1..Len(repeatPoints) :
         MouseDownMarker(k) =>
           LET id == repeatPoints[k].element
               index == repeatPoints[k].index
           IN  /\ ~IsNull(dom'[id].meta)
               /\ Get(dom'[id].meta).activeIndex =
                     IF MetaOf(id).activeIndex = Some(index) THEN Null ELSE Some(index)
               /\ \A j \in 1..Len(elements) :
                    LET other == elements[j]
                    IN  /\ IsNull(dom'[other].meta) = IsNull(dom[other].meta)
                        /\ ~IsNull(dom[other].meta) =>
                             /\ Get(dom'[other].meta).points = MetaOf(other).points
                             /\ Get(dom'[other].meta).count = MetaOf(other).count]_vars

\* a marker has just been clicked and is active, while another listed shape
\* has sampled points of its own
C4_Witness ==
    /\ mouse = "down"
    /\ downTarget = OnOverlay
    /\ TemplateActive
    /\ \E j \in 1..Len(elements) :
         /\ elements[j] # Get(selectedRepeatPoint).element
         /\ ~IsNull(dom[elements[j]].meta)
         /\ MetaOf(elements[j]).points # <<>>

Sampled == {id \in 1..Len(dom) : dom[id].tag \in {"line", "path"} /\ ~IsNull(dom[id].meta)}

\* C6: the points sampled on a line or path with a count are none for a
\* count <= 0, one point with t = 0.5 for count 1, and for a count > 1
\* exactly count points, the i-th (from 0) with t = i / (count - 1).
C6_SampleParameters ==
    \A id \in Sampled :
        LET count == MetaOf(id).count
            points == MetaOf(id).points
        IN  /\ Le(count, Num(0)) => points = <<>>
            /\ count = Num(1) => Len(points) = 1 /\ points[1].t = <<1, 2>>
            /\ Gt(count, Num(1)) =>
                 /\ Len(points) = count[1]
                 /\ \A k \in 1..Len(points) :
                      /\ ~IsNaN(points[k].t)
                      /\ points[k].t[1] * (count[1] - 1) = (k - 1) * points[k].t[2]

\* a path of several commands sampled with more than two points
C6_Witness ==
    \E id \in Sampled :
        /\ dom[id].tag = "path"
        /\ Len(dom[id].g.d) >= 2
        /\ MetaOf(id).count = Num(MaxSampleCount)
        /\ Len(MetaOf(id).points) = MaxSampleCount
        /\ MetaOf(id).points[2].t # MetaOf(id).points[3].t

ValidCount(count) == ~IsNaN(count) /\ count[2] = 1 /\ 1 <= count[1] /\ count[1] <= 500

\* C8: whichever of the two entry points sets a repeat count, the create
\* button or a change of the repeatCount input, the count it stores in a
\* RepeatMeta is an integer from 1 to 500.
C8_StoredCountClamped ==
    [][(CreateRepeatPointsClick \/ \E v \in CountValues : RepeatCountChange(v)) =>
         \A id \in 1..Len(dom) :
           (~IsNull(dom'[id].meta) /\ dom'[id].meta # dom[id].meta) =>
               ValidCount(Get(dom'[id].meta).count)]_vars

\* C9: no entry point gives a rectangle or a circle repeat state: such a
\* shape never carries a RepeatMeta.
C9_NoRepeatStateOnRectOrCircle ==
    \A id \in 1..Len(dom) : dom[id].tag \in {"rect", "circle"} => IsNull(dom[id].meta)

\* C10: the points of every listed line or path with a count > 0 are the
\* sampling of its current geometry, whatever gesture has changed the
\* geometry.
C10_PointsFollowGeometry ==
    \A k \in 1..Len(elements) :
        LET id == elements[k]
        IN  (id \in Sampled /\ Gt(MetaOf(id).count, Num(0))) =>
                MetaOf(id).points =
                    computeRepeatPointsForElement(dom[id], MetaOf(id).count)

\* ------------------------------------------------------------------------
\* Handle drags
\* ------------------------------------------------------------------------
\* this step is a pointer move that drags the selected anchor handle
AnchorDragStep ==
    /\ isDraggingAnchor /\ ~IsNull(selectedAnchorPoint)
    /\ ~isDraggingElement
    /\ mouse = "down" /\ edits' = edits + 1

\* this step is a pointer move that drags the selected control handle
ControlDragStep ==
    /\ isDraggingControl /\ ~IsNull(selectedControlPoint)
    /\ ~isDraggingElement /\ ~isDraggingAnchor
    /\ mouse = "down" /\ edits' = edits + 1

\* the handle being dragged, and where the move puts it
Dragged == Get(selectedAnchorPoint)
DragTarget == Pt2(Get(selectedAnchorPoint').x, Get(selectedAnchorPoint').y)

\* the rectangle spanned by two points
Spanned(a, b) ==
    [x |-> MathMin(a.x, b.x), y |-> MathMin(a.y, b.y),
     width |-> MathAbs(Sub(a.x, b.x)), height |-> MathAbs(Sub(a.y, b.y))]

\* C11: dragging corner i of a rectangle to a target yields the rectangle
\* spanned by the target and the corner opposite to i as it was before the
\* move (the opposite corner stays, and the rectangle flips when the target
\* lies past it)
C11_CornerDragKeepsOppositeCorner ==
    [][AnchorDragStep /\ Dragged.type = "rect"
       => LET before == dom[Dragged.element]
              opposite == AnchorSpots(before)[((Dragged.index + 2) % 4) + 1]
          IN  dom'[Dragged.element].g = Spanned(DragTarget, opposite)]_vars

\* C12: in every reachable state every rectangle, drawn or dragged by its
\* corners, has width >= 0 and height >= 0
C12_RectSizeNonNegative ==
    \A id \in 1..Len(dom) :
        dom[id].tag = "rect" =>
            Le(Num(0), dom[id].g.width) /\ Le(Num(0), dom[id].g.height)

\* a drawn rectangle whose bottom-right corner is being dragged to the left
\* of and above its top-left corner
C12_Witness ==
    /\ isDraggingAnchor /\ ~IsNull(selectedAnchorPoint) /\ edits = 1 /\ drawn >= 1
    /\ Dragged.type = "rect" /\ Dragged.index = 2
    /\ Lt(Dragged.x, dom[Dragged.element].g.x)
    /\ Lt(Dragged.y, dom[Dragged.element].g.y)

\* r is the distance between a and b, rounded down by less than one unit
IsDistance(r, a, b) ==
    LET dx == Sub(a.x, b.x)
        dy == Sub(a.y, b.y)
        d2 == Add(Mul(dx, dx), Mul(dy, dy))
    IN  /\ Le(Num(0), r)
        /\ Le(Mul(r, r), d2)
        /\ Lt(d2, Mul(Add(r, Num(1)), Add(r, Num(1))))

\* C13: dragging handle 0 of a circle sets the centre to the target and
\* leaves r unchanged; dragging handle 1 makes r the distance from the
\* target to the centre and leaves cx, cy unchanged
C13_CircleHandles ==
    [][AnchorDragStep /\ Dragged.type = "circle"
       => LET g == dom[Dragged.element].g
              after == dom'[Dragged.element].g
          IN  IF Dragged.index = 0
              THEN after = [cx |-> DragTarget.x, cy |-> DragTarget.y, r |-> g.r]
              ELSE /\ after.cx = g.cx /\ after.cy = g.cy
                   /\ IsDistance(after.r, DragTarget, Pt2(g.cx, g.cy))]_vars

\* the radius handle of the circle at (8, 6) is held at (0, 0): r is 10
C13_Witness ==
    /\ isDraggingAnchor /\ ~IsNull(selectedAnchorPoint) /\ edits = 1
    /\ Dragged.type = "circle" /\ Dragged.index = 1
    /\ Dragged.x = Num(0) /\ Dragged.y = Num(0)
    /\ dom[Dragged.element].g = [cx |-> Num(8), cy |-> Num(6), r |-> Num(10)]

\* this step drags the anchor handle at the end of a curve segment
CurveEndDragStep ==
    /\ AnchorDragStep /\ Dragged.type = "path"
    /\ Dragged.index < Len(dom[Dragged.element].g.d)
    /\ dom[Dragged.element].g.d[Dragged.index + 1].op = "C"

\* the curve command whose end is dragged, and the difference of two points
DraggedCurve == dom[Dragged.element].g.d[Dragged.index + 1]
Minus(a, b) == Pt2(Sub(a.x, b.x), Sub(a.y, b.y))

\* C14: moving the end anchor of a curve segment puts the end at the target
\* and translates both control points of the segment by the delta of the end
C14_CurveEndDragMovesControls ==
    [][CurveEndDragStep
       => LET after == dom'[Dragged.element].g.d[Dragged.index + 1]
              delta == Minus(DragTarget, DraggedCurve.p)
          IN  /\ after.op = "C"
              /\ after.p = DragTarget
              /\ after.c1 = MovePoint(DraggedCurve.c1, delta.x, delta.y)
              /\ after.c2 = MovePoint(DraggedCurve.c2, delta.x, delta.y)]_vars

\* the end of the segment from (0,0) with controls (10,0) and (20,10) has been
\* moved from (30,10) to (40,20): the controls are at (20,10) and (30,20)
C14_Witness ==
    /\ isDraggingAnchor /\ ~IsNull(selectedAnchorPoint) /\ edits = 1
    /\ Dragged.type = "path" /\ Dragged.index = 1
    /\ dom[Dragged.element].g.d =
          <<[op |-> "M", p |-> Pt2(Num(0), Num(0))],
            [op |-> "C", c1 |-> Pt2(Num(20), Num(10)), c2 |-> Pt2(Num(30), Num(20)),
             p |-> Pt2(Num(40), Num(20))]>>

\* C15: moving the end anchor of a curve segment leaves control2 - end and
\* control1 - start unchanged, start being the previous anchor after the move
C15_CurveEndDragKeepsControlOffsets ==
    [][CurveEndDragStep /\ Dragged.index >= 1
       => LET d == dom[Dragged.element].g.d
              after == dom'[Dragged.element].g.d
              i == Dragged.index + 1
          IN  /\ Minus(after[i].c2, after[i].p) = Minus(d[i].c2, d[i].p)
              /\ Minus(after[i].c1, after[i - 1].p) = Minus(d[i].c1, d[i - 1].p)]_vars

\* the control handle being dragged, and where the move puts it
DraggedControl == Get(selectedControlPoint)
ControlTarget == Pt2(Get(selectedControlPoint').x, Get(selectedControlPoint').y)

\* command i of d (1-based) is the C command of curve segment segmentIndex
IsSegment(d, i, segmentIndex) ==
    /\ d[i].op = "C"
    /\ Cardinality({j \in 1..i : d[j].op = "C"}) = segmentIndex + 1

\* C16: moving one control point of one curve segment changes only that
\* control point: the sibling control point and the end point of the segment,
\* every other command, and the number and order of commands stay
C16_ControlDragMovesOnlyThatControl ==
    [][ControlDragStep
       => LET d == dom[DraggedControl.element].g.d
              after == dom'[DraggedControl.element].g.d
          IN  /\ Len(after) = Len(d)
              /\ \A i \in 1..Len(d) :
                    IF IsSegment(d, i, DraggedControl.segmentIndex)
                    THEN /\ after[i].op = "C" /\ after[i].p = d[i].p
                         /\ IF DraggedControl.controlIndex = 1
                            THEN after[i].c1 = ControlTarget /\ after[i].c2 = d[i].c2
                            ELSE after[i].c2 = ControlTarget /\ after[i].c1 = d[i].c1
                    ELSE after[i] = d[i]
              /\ \A id \in 1..Len(dom) : id # DraggedControl.element => dom'[id] = dom[id]
              /\ Len(dom') = Len(dom)]_vars

\* the second control point of the second curve of M C C is held at (0, 12),
\* beside a second shape
C16_Witness ==
    /\ isDraggingControl /\ ~IsNull(selectedControlPoint) /\ edits = 1
    /\ DraggedControl.segmentIndex = 1 /\ DraggedControl.controlIndex = 2
    /\ Len(dom) = 2
    /\ dom[DraggedControl.element].g.d =
          <<[op |-> "M", p |-> Pt2(Num(0), Num(0))],
            [op |-> "C", c1 |-> Pt2(Num(0), Num(6)), c2 |-> Pt2(Num(8), Num(6)),
             p |-> Pt2(Num(8), Num(0))],
            [op |-> "C", c1 |-> Pt2(Num(8), Num(6)), c2 |-> Pt2(Num(0), Num(12)),
             p |-> Pt2(Num(16), Num(0))]>>

\* C17: moving a path anchor whose index the path does not have (an index
\* out of range, or any index on a path with no commands) changes nothing:
\* the path and every other shape are what they were
C17_MissingAnchorChangesNothing ==
    [][\A id \in 1..Len(dom), pointIndex \in -1..MaxPointIndex, pos \in DragPos :
          (/\ UpdatePathGeometryCall(id, pointIndex, pos)
           /\ (pointIndex < 0 \/ pointIndex >= Len(dom[id].g.d)))
          => dom' = dom /\ elements' = elements]_vars

\* updatePathGeometry has been called on a path with no commands, which is
\* selected, beside a second shape
C17_Witness ==
    /\ edits = 1 /\ Len(dom) = 2
    /\ \E id \in 1..Len(dom) :
          /\ dom[id].tag = "path" /\ dom[id].g.d = <<>>
          /\ selectedElement = Some(id)

\* C18: within one drag the geometry after a move to p depends only on the
\* geometry when the drag began, the stored offset and p: after a first move
\* to any position, a move to p (the same position or another) gives the
\* geometry that a single move to p from the beginning of the drag gives;
\* for line, rectangle, circle-centre and path handles
C18_DragHasNoDrift ==
    [][(/\ AnchorDragStep /\ edits = 0
        /\ \/ Dragged.type \in {"line", "rect", "path"}
           \/ Dragged.type = "circle" /\ Dragged.index = 0)
       => \A p \in DragPos :
             handleMouseMove(Now', p).dom = handleMouseMove(Now, p).dom]_vars

\* this step is the release of the button that ends a handle drag
DragEndStep ==
    /\ mouse = "down" /\ mouse' = "up"
    /\ isDraggingAnchor \/ isDraggingControl

\* C19: ending a handle drag leaves the editor not dragging, with the drag
\* offset cleared, and with the dragged handle still selected
C19_DragEndKeepsHandleSelected ==
    [][DragEndStep
       => /\ ~isDraggingAnchor' /\ ~isDraggingControl'
          /\ isDraggingAnchor => /\ anchorDragOffset' = ZeroOffset
                                 /\ ~IsNull(selectedAnchorPoint)
                                 /\ selectedAnchorPoint' = selectedAnchorPoint
          /\ isDraggingControl => /\ controlDragOffset' = ZeroOffset
                                  /\ ~IsNull(selectedControlPoint)
                                  /\ selectedControlPoint' = selectedControlPoint]_vars

\* an anchor handle, taken hold of off its position and moved, has been
\* released: it is selected, and nothing is being dragged
C19_Witness ==
    /\ mouse = "up" /\ edits = 1
    /\ ~IsNull(selectedAnchorPoint)
    /\ ~isDraggingAnchor /\ ~isDraggingControl
    /\ anchorDragOffset = ZeroOffset
    /\ Pt2(Dragged.x, Dragged.y) \notin DragPos

\* C20: at most one of the selected anchor handle and the selected control
\* handle is set in any state; a press on an anchor handle makes it the
\* selected anchor and clears the control selection, a press on a control
\* handle makes it the selected control and clears the anchor selection
C20_OneHandleSelected ==
    /\ [](IsNull(selectedAnchorPoint) \/ IsNull(selectedControlPoint))
    /\ [][/\ \A k \in 1..Len(anchorPoints), off \in GrabOffsets :
               MouseDownAnchorAt(k, off)
               => /\ ~IsNull(selectedAnchorPoint') /\ Get(selectedAnchorPoint').point = k
                  /\ IsNull(selectedControlPoint')
          /\ \A k \in 1..Len(controlPoints), off \in GrabOffsets :
               MouseDownControl(k, off)
               => /\ ~IsNull(selectedControlPoint') /\ Get(selectedControlPoint').point = k
                  /\ IsNull(selectedAnchorPoint')]_vars

\* the first anchor of a path has been dragged away from (0, 0) and released,
\* and now a control handle is the selection
C20_Witness ==
    /\ ~IsNull(selectedControlPoint) /\ IsNull(selectedAnchorPoint)
    /\ isDraggingControl /\ edits = 1
    /\ dom[DraggedControl.element].g.d[1].p # Pt2(Num(0), Num(0))

\* C21: a pointer move changes geometry only while a handle is being dragged,
\* and then the selected handle goes to the pointer position minus the
\* offset, which is the pointer position minus the handle position when the
\* drag began; a move with no drag in progress changes no geometry
C21_MovesEditOnlyWhileDragging ==
    [][/\ \A k \in 1..Len(anchorPoints), off \in GrabOffsets :
            MouseDownAnchorAt(k, off) /\ currentTool = "anchor"
            => isDraggingAnchor' /\ anchorDragOffset' = off
       /\ \A k \in 1..Len(controlPoints), off \in GrabOffsets :
            MouseDownControl(k, off) /\ currentTool = "anchor"
            => isDraggingControl' /\ controlDragOffset' = off
       /\ \A pos \in DragPos \cup Pos :
            MouseMove(pos) \/ Hover(pos)
            => IF mouse = "down" /\ isDraggingAnchor /\ ~IsNull(selectedAnchorPoint)
               THEN DragTarget = Minus(pos, anchorDragOffset)
               ELSE IF mouse = "down" /\ isDraggingControl /\ ~IsNull(selectedControlPoint)
               THEN ControlTarget = Minus(pos, controlDragOffset)
               ELSE dom' = dom]_vars

\* a handle taken hold of at (2, 1) off its position is held with the
\* pointer at (8, 6): the handle is at (6, 5) and the shape has followed
C21_Witness ==
    /\ isDraggingAnchor /\ ~IsNull(selectedAnchorPoint) /\ edits = 1
    /\ anchorDragOffset = Pt2(Num(2), Num(1))
    /\ Dragged.x = Num(6) /\ Dragged.y = Num(5)
    /\ AnchorSpots(dom[Dragged.element])[Dragged.index + 1] = Pt2(Num(6), Num(5))

\* the shapes being drawn: the element a drawing tool holds while it draws,
\* and the path of the path tool
Sketched ==
    {id \in 1..Len(dom) :
        \/ \E t \in ShapeTools :
              drawingTools[t].isDrawing /\ drawingTools[t].currentElement = Some(id)
        \/ pathTool.currentPath = Some(id)}

\* C22: Escape during a line, rectangle, circle, path or curve draw removes
\* the shape that is not finalized yet from the canvas: it does not enter the
\* element list and no draw is in progress afterwards
C22_EscapeRemovesShapeInProgress ==
    [][KeyEscape /\ Sketched # {}
       => /\ \A id \in Sketched : ~dom'[id].attached
          /\ elements' = elements
          /\ Sketched' = {}
          /\ ~isDrawing']_vars

\* the shapes a selected anchor handle, a selected control handle or the
\* active repeat point of state s refers to
SelectionRefs(s) ==
    {id \in 1..Len(s.dom) :
        \/ ~IsNull(s.selectedAnchorPoint) /\ Get(s.selectedAnchorPoint).element = id
        \/ ~IsNull(s.selectedControlPoint) /\ Get(s.selectedControlPoint).element = id
        \/ ~IsNull(s.selectedRepeatPoint) /\ Get(s.selectedRepeatPoint).element = id}

\* C23: after a shape is deleted or the canvas is cleared no selected anchor
\* handle, selected control handle or active repeat point refers to a removed
\* shape, and none does in any later state: what they refer to is on the
\* canvas
C23_NoSelectionOnRemovedShape ==
    [][/\ \A id \in 1..Len(dom) :
            dom[id].attached /\ ~dom'[id].attached => id \notin SelectionRefs(Now')
       /\ \A id \in SelectionRefs(Now') : dom'[id].attached]_vars

\* Delete was pressed while an anchor handle of the selected path was being
\* dragged: the path is gone, the drag flag is still set and no handle is
\* selected, so that the moves that follow edit nothing
C23_Witness ==
    /\ dom[1].tag = "collected" /\ elements = <<2>>
    /\ isDraggingAnchor /\ mouse = "down"
    /\ SelectionRefs(Now) = {}

\* the command the serialization has for one segment
CommandOf(seg) ==
    IF seg.type = "curve"
    THEN [op |-> "C", c1 |-> Get(seg.control1), c2 |-> Get(seg.control2), p |-> seg.endPoint]
    ELSE [op |-> "L", p |-> seg.endPoint]

\* C24: the segment list of the path being drawn serializes to one M for the
\* start of segment 0 followed by one L or C per segment in order, and that
\* of a path with a single anchor and no drawn segment to M x y alone
C24_SerializedSegments ==
    ~IsNull(pathTool.currentPath) =>
        LET segs == pathTool.pathSegments
            data == buildPathDataFromSegments(segs)
        IN  /\ Len(data) = 1 + Len(segs)
            /\ data[1] = [op |-> "M", p |-> segs[1].startPoint]
            /\ \A i \in 1..Len(segs) : data[i + 1] = CommandOf(segs[i])
            /\ Len(pathTool.pathPoints) = 1 =>
                  data = <<[op |-> "M", p |-> pathTool.pathPoints[1]]>>

\* the commands of the path being drawn, none when there is no such path
PathData == IF IsNull(pathTool.currentPath) THEN <<>> ELSE dom[Get(pathTool.currentPath)].g.d

\* the path being drawn shows its anchors and no preview of a next segment
Settled ==
    \/ PathData = <<>>
    \/ PathData = <<[op |-> "M", p |-> pathTool.pathPoints[1]]>>
    \/ PathData = buildPathDataFromSegments(pathTool.pathSegments)

\* C25: each single click with the path tool adds exactly one anchor, a line
\* command after the first: after k single clicks the path has k anchors,
\* an M and k - 1 L commands
C25_ClickAddsOneAnchor ==
    [][/\ MouseUpDetail(1) /\ currentTool = "path" /\ isDrawing
       /\ ~pathTool.isDragging /\ Settled
       /\ \A i \in 1..Len(PathData) : PathData[i].op # "C"
       => /\ Len(PathData') = Len(PathData) + 1
          /\ PathData'[1].op = "M"
          /\ \A i \in 2..Len(PathData') : PathData'[i].op = "L"
          /\ Len(PathData') = Len(pathTool.pathPoints')]_vars

\* the curve segments of a segment list, in order
CurveSegments(segs) == SelectSeq(segs, LAMBDA seg : seg.type = "curve")

Shifted(a, b, dx, dy) ==
    /\ b.tag = a.tag
    /\ CASE a.tag = "line" ->
              /\ b.g.x1 = Add(a.g.x1, dx) /\ b.g.y1 = Add(a.g.y1, dy)
              /\ b.g.x2 = Add(a.g.x2, dx) /\ b.g.y2 = Add(a.g.y2, dy)
         [] a.tag = "rect" ->
              /\ b.g.x = Add(a.g.x, dx) /\ b.g.y = Add(a.g.y, dy)
              /\ b.g.width = a.g.width /\ b.g.height = a.g.height
         [] a.tag = "circle" ->
              /\ b.g.cx = Add(a.g.cx, dx) /\ b.g.cy = Add(a.g.cy, dy)
              /\ b.g.r = a.g.r
         [] a.tag = "path" ->
              /\ Len(b.g.d) = Len(a.g.d)
              /\ \A k \in 1..Len(a.g.d) :
                    /\ b.g.d[k].op = a.g.d[k].op
                    /\ b.g.d[k].p = MovePoint(a.g.d[k].p, dx, dy)
                    /\ a.g.d[k].op = "C" =>
                          /\ b.g.d[k].c1 = MovePoint(a.g.d[k].c1, dx, dy)
                          /\ b.g.d[k].c2 = MovePoint(a.g.d[k].c2, dx, dy)
         [] OTHER -> FALSE

Toward(a, b, w) ==
    Pt2(Add(a.x, Mul(w, Sub(b.x, a.x))), Add(a.y, Mul(w, Sub(b.y, a.y))))

\* the button is released at the end of a drag made with the path tool on a
\* path that exists
CurveDragEnd ==
    /\ \E detail \in {1, 2} : MouseUpDetail(detail)
    /\ currentTool = "path" /\ isDrawing
    /\ pathTool.isDragging /\ pathTool.isCreatingCurve
    /\ ~IsNull(pathTool.currentPath)

\* C28: a drag pressed at dragAnchor and released at endPoint, on a path
\* whose last end point is start, appends a curve segment from start to
\* endPoint with control1 = start + 0.3 * (dragAnchor - start) and
\* control2 = dragAnchor + 0.7 * (endPoint - dragAnchor)
C28_CurveFromDrag ==
    [][CurveDragEnd =>
          LET start == LastEnd(pathTool)
              dragAnchor == Get(pathTool.curveStartPoint)
              endPoint == ReleasePos
              n == Len(pathTool.pathSegments)
          IN  /\ Len(pathTool.pathSegments') > n
              /\ SubSeq(pathTool.pathSegments', 1, n) = pathTool.pathSegments
              /\ pathTool.pathSegments'[n + 1] =
                    [type |-> "curve", startPoint |-> start, endPoint |-> endPoint,
                     control1 |-> Some(Toward(start, dragAnchor, Norm(3, 10))),
                     control2 |-> Some(Toward(dragAnchor, endPoint, Norm(7, 10)))]
              /\ PathData'[n + 2] =
                    [op |-> "C", c1 |-> Toward(start, dragAnchor, Norm(3, 10)),
                     c2 |-> Toward(dragAnchor, endPoint, Norm(7, 10)), p |-> endPoint]]_vars

\* a curve from (0,0) back to (0,0) made by a drag pressed at (4,4): its
\* control points are both (1.2, 1.2)
C28_Witness ==
    /\ ~IsNull(pathTool.currentPath) /\ mouse = "up"
    /\ Len(pathTool.pathSegments) >= 2
    /\ pathTool.pathSegments[2] =
          [type |-> "curve", startPoint |-> Pt(0), endPoint |-> Pt(0),
           control1 |-> Some(Pt2(Norm(6, 5), Norm(6, 5))),
           control2 |-> Some(Pt2(Norm(6, 5), Norm(6, 5)))]

\* C29: in every state the segment list of the path tool is a connected
\* chain, each segment starting where the one before it ends; a line segment
\* has no control point and a curve segment has both
C29_SegmentsAreChain ==
    LET segs == pathTool.pathSegments
    IN  /\ \A i \in 2..Len(segs) : segs[i].startPoint = segs[i - 1].endPoint
        /\ \A i \in 1..Len(segs) :
              /\ segs[i].type \in {"line", "curve"}
              /\ segs[i].type = "line" => IsNull(segs[i].control1) /\ IsNull(segs[i].control2)
              /\ segs[i].type = "curve" => ~IsNull(segs[i].control1) /\ ~IsNull(segs[i].control2)

\* a chain of a line, a curve and a line whose curve does not end where it
\* starts
C29_Witness ==
    /\ Len(pathTool.pathSegments) = 4
    /\ pathTool.pathSegments[2].type = "line" /\ pathTool.pathSegments[3].type = "curve"
    /\ pathTool.pathSegments[3].endPoint # pathTool.pathSegments[3].startPoint
    /\ pathTool.pathSegments[4].type = "line"

\* the positions in d of the commands that match, in order: handle number i
\* of a path is displayed for the command at Shown(d)[i + 1]
Shown(d) == SelectSeq([k \in 1..Len(d) |-> k], LAMBDA k : Matches(d[k]))

\* C30: in a path with a command off the grammar, that command gets no handle
\* and the commands that match stay as they are; dragging the handle
\* displayed for an anchor moves that anchor to the target and changes no
\* other command of the path
C30_DragMovesTheShownAnchor ==
    [][AnchorDragStep /\ Dragged.type = "path"
       => LET d == dom[Dragged.element].g.d
              after == dom'[Dragged.element].g.d
              c == Shown(d)[Dragged.index + 1]
          IN  /\ Len(AnchorSpots(dom[Dragged.element])) = Len(Shown(d))
              /\ Len(after) = Len(d)
              /\ after[c].p = DragTarget
              /\ \A k \in 1..Len(d) : k # c => after[k] = d[k]]_vars

\* nothing is in progress: no draw of the editor or of a tool, no path being
\* drawn, no drag of a shape or of a handle, and no button held
Quiet ==
    /\ mouse = "up"
    /\ ~isDrawing
    /\ \A t \in ShapeTools : ~drawingTools[t].isDrawing
    /\ ~pathTool.isDrawing /\ IsNull(pathTool.currentPath)
    /\ ~isDraggingElement /\ ~isDraggingAnchor /\ ~isDraggingControl

\* C31: whenever no draw or drag is in progress, the shapes of the exported
\* svg are the shapes of the element list in the same order, and no preview
\* line or handle line is exported
C31_ExportIsTheElementList ==
    Quiet => svgData(Now).shapes = elements /\ svgData(Now).lines = <<>>

\* the anchor handles of shape id among hs, each as its index and position
PlacedAnchors(hs, id) ==
    LET mine == SelectSeq(hs, LAMBDA h : h.element = id)
    IN  [k \in 1..Len(mine) |-> <<mine[k].index, mine[k].x, mine[k].y>>]

\* the control handles of shape id among hs, each as its curve segment, its
\* side and its position
PlacedControls(hs, id) ==
    LET mine == SelectSeq(hs, LAMBDA h : h.element = id)
    IN  [k \in 1..Len(mine) |->
            <<mine[k].segmentIndex, mine[k].controlIndex, mine[k].x, mine[k].y>>]

\* the shape and the list as the step leaves them
Mutated == [Now EXCEPT !.dom = dom', !.elements = elements']

\* the shape whose handle the step drags
Affected ==
    IF isDraggingAnchor /\ ~IsNull(selectedAnchorPoint) THEN Dragged.element
    ELSE DraggedControl.element

\* C32: after every pointer move of an anchor drag or of a control drag the
\* displayed anchor handles and control handles of the dragged shape are
\* where displaying them anew from its geometry would put them
C32_NoStaleHandle ==
    [][AnchorDragStep \/ ControlDragStep
       => /\ PlacedAnchors(anchorPoints', Affected)
               = PlacedAnchors(HandlesOf(Mutated, Affected, TRUE), Affected)
          /\ PlacedControls(controlPoints', Affected)
               = IF dom'[Affected].tag = "path"
                 THEN PlacedControls(ControlHandlesOf(Mutated, Affected), Affected)
                 ELSE <<>>]_vars

\* ------------------------------------------------------------------------
\* the properties panel: two shapes are picked with the select tool and the
\* stroke, fill, stroke-width and opacity controls are changed
\* ------------------------------------------------------------------------
InitProps ==
    /\ \E e \in {a \in AnchorShapes : a.tag = "rect"} :
          Holds([Fresh(Num(0)) EXCEPT !.dom = <<e, Bystander>>, !.elements = <<1, 2>>])
    /\ mouse = "up"
    /\ downTarget = OnCanvas
    /\ drawn = 0
    /\ edits = 0

NextProps ==
    \/ \E tool \in AnchorTools : SetTool(tool)
    \/ \E id \in 1..Len(dom) : MouseDownElement(id)
    \/ MouseUp
    \/ \E in \in PropertyInputs : PropertyInput(in[1], in[2])
    \/ PropertyListenerRun
    \/ PropertyCallsExhausted

SpecProps == InitProps /\ [][NextProps]_vars

\* C33: handling one propertyChanged event terminates: no change of a
\* property control ends with the call stack exhausted by the handler's own
\* emissions
C33_PropertyChangeTerminates == IsNull(propertiesManager.error)

\* the shapes of the document whose repeat data has an active point
ActiveShapes ==
    {id \in 1..Len(dom) : dom[id].attached /\ ~IsNull(dom[id].meta)
                          /\ ~IsNull(Get(dom[id].meta).activeIndex)}

\* C34: at most one shape of the document has a non-null activeIndex, and
\* the manager's selected repeat point is non-null exactly when some shape
\* has one, and then names that shape and that index
C34_OneActiveRepeatPoint ==
    /\ Cardinality(ActiveShapes) <= 1
    /\ ~IsNull(selectedRepeatPoint) <=> ActiveShapes # {}
    /\ \A id \in ActiveShapes :
          selectedRepeatPoint = Some([element |-> id, index |-> Get(Get(dom[id].meta).activeIndex)])

\* C35: while an anchor drag or a control-point drag is in progress the
\* selected handle of that kind is non-null and its shape is in the element
\* list, and the two drags are never in progress together
C35_DragHasItsHandle ==
    /\ isDraggingAnchor =>
          /\ ~IsNull(selectedAnchorPoint)
          /\ IndexOf(elements, Get(selectedAnchorPoint).element) > -1
    /\ isDraggingControl =>
          /\ ~IsNull(selectedControlPoint)
          /\ IndexOf(elements, Get(selectedControlPoint).element) > -1
    /\ ~(isDraggingAnchor /\ isDraggingControl)

\* C36: after every move of a drag the position recorded for the selected
\* handle is the position of that handle derived from the shape's geometry,
\* also after a rectangle drag clamped to zero width or height
C36_RecordedPositionIsDerived ==
    [][/\ AnchorDragStep
          => LET spot == AnchorSpots(dom'[Dragged.element])[Dragged.index + 1]
             IN  DragTarget = Pt2(spot.x, spot.y)
       /\ ControlDragStep
          => LET mine == SelectSeq(ControlHandlesOf(Mutated, DraggedControl.element),
                                   LAMBDA h : /\ h.segmentIndex = DraggedControl.segmentIndex
                                              /\ h.controlIndex = DraggedControl.controlIndex)
             IN  /\ Len(mine) = 1
                 /\ ControlTarget = Pt2(mine[1].x, mine[1].y)]_vars

\* the segments of the path being drawn, by type; the segment from the first
\* point to itself that startNewPath makes stands for the M command and is
\* not counted
SegmentsOf(t, type) ==
    IF IsNull(t.currentPath) THEN 0
    ELSE Cardinality({i \in 2..Len(t.pathSegments) : t.pathSegments[i].type = type})

\* this step is the release of the button in the path tool with the click
\* event that follows it
PathRelease ==
    /\ MouseUpDetail(1)
    /\ currentTool = "path" /\ isDrawing

\* C37: a press-drag-release of the path tool with its click appends exactly
\* one curve segment and no line segment; a press-release without a drag with
\* its click appends exactly one anchor and no curve segment
C37_OneSegmentPerGesture ==
    [][PathRelease =>
          IF pathTool.isDragging
          THEN /\ SegmentsOf(pathTool', "curve") = SegmentsOf(pathTool, "curve") + 1
               /\ SegmentsOf(pathTool', "line") = SegmentsOf(pathTool, "line")
          ELSE /\ SegmentsOf(pathTool', "curve") = SegmentsOf(pathTool, "curve")
               /\ SegmentsOf(pathTool', "line") =
                     IF IsNull(pathTool.currentPath) THEN 0
                     ELSE SegmentsOf(pathTool, "line") + 1
               /\ Len(pathTool.pathPoints') =
                     1 + (IF IsNull(pathTool.currentPath) THEN 0
                          ELSE Len(pathTool.pathPoints))]_vars

NoRepeat(seq) == \A i, j \in 1..Len(seq) : i # j => seq[i] # seq[j]

\* the shapes this step adds to the element list
Added == {elements'[k] : k \in 1..Len(elements')} \ {elements[k] : k \in 1..Len(elements)}

\* this step finishes the path in progress: a double click, Enter, or the
\* choice of another tool
PathFinishStep ==
    /\ currentTool = "path" /\ ~IsNull(pathTool.currentPath)
    /\ \/ MouseUpDetail(2)
       \/ KeyEnter
       \/ \E tool \in Tools : SetTool(tool)

\* C38: no shape is in the element list twice; a drawn shape enters the list
\* at the step that finalizes its draw and at no other step, everything else
\* a step adds being a clone made at that step; and after a change of tool no
\* path is in progress
C38_AddedOnceWhenFinalized ==
    [][/\ NoRepeat(elements')
       /\ Added \subseteq (Sketched \cup {id \in 1..Len(dom') : id > Len(dom)})
       /\ Added \cap Sketched # {} => FinalizeStep \/ PathFinishStep
       /\ Added \ Sketched # {} => FinalizeStep \/ PathFinishStep
       /\ FinalizeStep => NewId \in Added
       /\ PathFinishStep => /\ Get(pathTool.currentPath) \in Added
                            /\ IsNull(pathTool.currentPath')
       /\ (\E tool \in Tools : SetTool(tool)) => IsNull(pathTool.currentPath')]_vars

\* this step moves an anchor or a control point of a path
PathHandleDragStep ==
    \/ AnchorDragStep /\ Dragged.type = "path"
    \/ ControlDragStep

\* C39: moving a path anchor of an M or L command changes nothing of the
\* path but the point of that command: every other command keeps its point
\* and its control points; and no move of an anchor or of a control point
\* changes the number or the order of the commands
C39_AnchorMoveIsLocal ==
    [][/\ AnchorDragStep /\ Dragged.type = "path"
          /\ Dragged.index < Len(dom[Dragged.element].g.d)
          /\ dom[Dragged.element].g.d[Dragged.index + 1].op \in {"M", "L"}
          => LET d == dom[Dragged.element].g.d
                 after == dom'[Dragged.element].g.d
             IN  /\ Len(after) = Len(d)
                 /\ \A k \in 1..Len(d) : k # Dragged.index + 1 => after[k] = d[k]
       /\ PathHandleDragStep
          => LET id == Affected
             IN  /\ Len(dom'[id].g.d) = Len(dom[id].g.d)
                 /\ \A k \in 1..Len(dom[id].g.d) : dom'[id].g.d[k].op = dom[id].g.d[k].op]_vars

\* the anchor of the L command of M 0 0 L 8 0 C 8 6 16 6 16 12 has been
\* moved to (40,20): the curve that leaves it has its control points where
\* they were
C39_Witness ==
    /\ isDraggingAnchor /\ ~IsNull(selectedAnchorPoint) /\ edits = 1
    /\ Dragged.type = "path" /\ Dragged.index = 1
    /\ dom[Dragged.element].g.d =
          <<[op |-> "M", p |-> Pt2(Num(0), Num(0))],
            [op |-> "L", p |-> Pt2(Num(40), Num(20))],
            [op |-> "C", c1 |-> Pt2(Num(8), Num(6)), c2 |-> Pt2(Num(16), Num(6)),
             p |-> Pt2(Num(16), Num(12))]>>

====
